---------------------------- MODULE Spec2Model ----------------------------
(***************************************************************************)
(* Household chore tracker: the Home component (src/src/app/page.tsx), its *)
(* React state, the asynchronous handlers it registers and the remote      *)
(* tables they call (schema in the Supabase setup guide).                  *)
(*                                                                         *)
(* Strings are tuples of one-character strings, so that trim() and         *)
(* toLowerCase() are computed.  A handler that awaits a remote call is      *)
(* suspended in `inflight' together with the values its closure captured   *)
(* when it was invoked; one step of a suspended handler is one remote call *)
(* (applied to the tables, or failing) followed by the handler's code up   *)
(* to its next await.                                                      *)
(***************************************************************************)
EXTENDS Integers, Sequences, FiniteSets, TLC

VARIABLES
  isAuthenticated, userId, userName, householdId,  \* session (page.tsx:58-61)
  assignees, categories, chores,           \* Entity Store (page.tsx:64-66)
  isLoading, error,                        \* page.tsx:97-98
  isMounted,                               \* page.tsx:95, 100-102
  localStorage,                            \* the browser's persisted session
  loginError,                              \* LoginScreen's error state
  console,                                 \* the load's console.error lines
  dbAssignees, dbCategories, dbChores,     \* remote tables
  dbHouseholds, dbProfiles,                \* remote tables of the join
  other,                                   \* a second browser session
  nextId,                                  \* server-side id generation
  inflight,                                \* suspended async handlers
  resolved,                                \* what the last render resolved
  ops                                      \* user events so far

vars == <<isAuthenticated, userId, userName, householdId, assignees,
          categories, chores, isLoading, error, isMounted, localStorage,
          loginError, console, dbAssignees, dbCategories, dbChores,
          dbHouseholds, dbProfiles, other, nextId, inflight, resolved, ops>>

session == <<isAuthenticated, userId, userName, householdId>>
store   == <<assignees, categories, chores>>
remote  == <<dbAssignees, dbCategories, dbChores, nextId>>
screen  == <<isMounted, localStorage, loginError>>
identity == <<dbHouseholds, dbProfiles>>

-----------------------------------------------------------------------------
(* Bounds *)

\* the user events (clicks, submitted forms) of one run
MaxOps == 3
\* the handlers suspended at an await at one time
MaxInflight == 2

-----------------------------------------------------------------------------
(* Values *)

\* JavaScript null / undefined for ids, and for the error state.
NULL == 0
NoError == "null"

\* The household every row of this model belongs to.
HOME == <<"H">>

\* A household code nobody has used.
ELSEWHERE == <<"G">>

\* Messages a failed remote call can carry (PostgrestError.message); the
\* empty one exercises the `|| "Failed to ..."' fallbacks.
ErrMsgs == {"", "remote failure"}

-----------------------------------------------------------------------------
(* Sequence and string helpers *)

Range(s) == {s[i] : i \in 1..Len(s)}

\* Array.prototype.filter((id) => id !== x)
Without(s, x) == LET Keep(e) == e # x IN SelectSeq(s, Keep)

\* Array.prototype.includes
Includes(s, x) == \E i \in 1..Len(s) : s[i] = x

\* String.prototype.trim on a tuple of characters
RECURSIVE TrimLeft(_)
TrimLeft(s) ==
  IF s # <<>> /\ Head(s) = " " THEN TrimLeft(Tail(s)) ELSE s

RECURSIVE TrimRight(_)
TrimRight(s) ==
  IF s # <<>> /\ s[Len(s)] = " " THEN TrimRight(SubSeq(s, 1, Len(s) - 1)) ELSE s

Trim(s) == TrimRight(TrimLeft(s))

LowerChar(c) ==
  CASE c = "A" -> "a"
    [] c = "S" -> "s"
    [] c = "H" -> "h"
    [] c = "G" -> "g"
    [] OTHER -> c

UpperChar(c) ==
  CASE c = "a" -> "A"
    [] c = "s" -> "S"
    [] c = "h" -> "H"
    [] c = "g" -> "G"
    [] OTHER -> c

\* String.prototype.toUpperCase
ToUpperCase(s) == [i \in 1..Len(s) |-> UpperChar(s[i])]

\* String.prototype.toLowerCase
ToLowerCase(s) == [i \in 1..Len(s) |-> LowerChar(s[i])]


Ids(s) == {s[i].id : i \in 1..Len(s)}

\* Array.prototype.find((r) => r.id === id) finds a row
Has(s, id) == id \in Ids(s)

\* Array.prototype.find((r) => r.id === id): the first match
Find(s, id) ==
  s[CHOOSE i \in 1..Len(s) :
      /\ s[i].id = id
      /\ \A j \in 1..(i - 1) : s[j].id # id]

\* getErrorMessage (page.tsx:47-54).  A value thrown by a handler is the
\* error object of the failed call.
getErrorMessage(err) ==
  CASE err.kind = "Error" -> err.message
    [] err.kind = "string" -> err.message
    [] err.kind = "object" -> err.message
    [] OTHER -> "An unknown error occurred"

\* `getErrorMessage(err) || fallback'
OrElse(msg, fallback) == IF msg = "" THEN fallback ELSE msg

\* The results a remote call can settle with: success, or an error object.
RemoteErrors == {[kind |-> "object", message |-> m] : m \in ErrMsgs}

-----------------------------------------------------------------------------
(* Remote tables: rows use the snake_case column names of the schema.      *)

AssigneeRow(id, name, hh) == [id |-> id, name |-> name, household_id |-> hh]

CategoryRow(id, name, hh, aids) ==
  [id |-> id, name |-> name, household_id |-> hh, assignee_ids |-> aids]

ChoreRow(id, title, completed, hh, aids, cat) ==
  [id |-> id, title |-> title, completed |-> completed, household_id |-> hh,
   assignee_ids |-> aids, category_id |-> cat]

HouseholdRow(id) == [id |-> id]

ProfileRow(id, name, hh) == [id |-> id, name |-> name, household_id |-> hh]

\* .select("*").eq("household_id", hh)
SelectByHousehold(table, hh) ==
  LET InHousehold(r) == r.household_id = hh IN SelectSeq(table, InHousehold)

\* .delete().eq("id", id)
DeleteById(table, id) ==
  LET Keep(r) == r.id # id IN SelectSeq(table, Keep)

\* chores.category_id references categories (id)
ForeignKeyOk(cat) == cat = NULL \/ cat \in Ids(dbCategories)

\* a category row can be deleted only when no chore row references it
DeletableCategory(id) == \A i \in 1..Len(dbChores) : dbChores[i].category_id # id

-----------------------------------------------------------------------------
(* Entity Store records: camelCase field names (page.tsx:7-28).            *)

\* the mapping of a category row on load (page.tsx:262-268)
CategoryFromDB(cat) ==
  [id |-> cat.id, name |-> cat.name, household_id |-> cat.household_id,
   assigneeIds |-> cat.assignee_ids, isOpen |-> TRUE]

\* the mapping of a chore row on load (page.tsx:278-285)
ChoreFromDB(chore) ==
  [id |-> chore.id, title |-> chore.title, completed |-> chore.completed,
   household_id |-> chore.household_id, assigneeIds |-> chore.assignee_ids,
   categoryId |-> chore.category_id]

\* A choreForState that leaves the category out.
choreForStateWithoutCategory(data) ==
  [id |-> data.id, title |-> data.title, completed |-> data.completed,
   household_id |-> data.household_id, assigneeIds |-> data.assignee_ids,
   categoryId |-> NULL]

\* choreForState of handleAddChore / handleAddChoreInCategory
\* (page.tsx:345-352, 391-398)
choreForState(data) ==
  [id |-> data.id, title |-> data.title, completed |-> data.completed,
   household_id |-> data.household_id, assigneeIds |-> data.assignee_ids,
   categoryId |-> data.category_id]

\* categoryForState of handleAddCategory (page.tsx:570-576)
categoryForState(data) ==
  [id |-> data.id, name |-> data.name, household_id |-> data.household_id,
   assigneeIds |-> data.assignee_ids, isOpen |-> TRUE]

\* Array.prototype.map over a sequence of rows
MapCategories(rows) == [i \in 1..Len(rows) |-> CategoryFromDB(rows[i])]
MapChores(rows) == [i \in 1..Len(rows) |-> ChoreFromDB(rows[i])]

-----------------------------------------------------------------------------
(* Assignment Resolver *)

\* The resolver with the category consulted before the chore's own list.
CategoryFirstAssignees(chore, cats) ==
  IF chore.categoryId # NULL
     /\ Has(cats, chore.categoryId)
     /\ Len(Find(cats, chore.categoryId).assigneeIds) > 0
  THEN [assigneeIds |-> Find(cats, chore.categoryId).assigneeIds,
        isInherited |-> TRUE]
  ELSE [assigneeIds |-> chore.assigneeIds, isInherited |-> FALSE]

\* The resolver reporting inherited assignees as if they were direct.
UnflaggedInheritedAssignees(chore, cats) ==
  IF Len(chore.assigneeIds) > 0
  THEN [assigneeIds |-> chore.assigneeIds, isInherited |-> FALSE]
  ELSE IF chore.categoryId # NULL
          /\ Has(cats, chore.categoryId)
          /\ Len(Find(cats, chore.categoryId).assigneeIds) > 0
       THEN [assigneeIds |-> Find(cats, chore.categoryId).assigneeIds,
             isInherited |-> FALSE]
       ELSE [assigneeIds |-> <<>>, isInherited |-> FALSE]

\* The resolver without the test that the category has default assignees.
UncheckedDefaultsAssignees(chore, cats) ==
  IF Len(chore.assigneeIds) > 0
  THEN [assigneeIds |-> chore.assigneeIds, isInherited |-> FALSE]
  ELSE IF chore.categoryId # NULL /\ Has(cats, chore.categoryId)
       THEN [assigneeIds |-> Find(cats, chore.categoryId).assigneeIds,
             isInherited |-> TRUE]
       ELSE [assigneeIds |-> <<>>, isInherited |-> FALSE]

\* getEffectiveAssignees (page.tsx:634-658), reading the categories `cats'
\* of the render that calls it.
getEffectiveAssigneesIn(chore, cats) ==
  IF Len(chore.assigneeIds) > 0
  THEN [assigneeIds |-> chore.assigneeIds, isInherited |-> FALSE]
  ELSE IF chore.categoryId # NULL
          /\ Has(cats, chore.categoryId)
          /\ Len(Find(cats, chore.categoryId).assigneeIds) > 0
       THEN [assigneeIds |-> Find(cats, chore.categoryId).assigneeIds,
             isInherited |-> TRUE]
       ELSE [assigneeIds |-> <<>>, isInherited |-> FALSE]

getEffectiveAssignees(chore) == getEffectiveAssigneesIn(chore, categories)

-----------------------------------------------------------------------------
(* Suspended handlers *)

\* An async handler suspended at an await: the name of the handler, the
\* remote call it waits for (step), its arguments, the input buffer it read,
\* and the state its closure captured from the render that created it.
Handler(op, id, arg, text) ==
  [op |-> op, step |-> 1, id |-> id, arg |-> arg, text |-> text,
   householdId |-> householdId, userName |-> userName,
   assignees |-> assignees, categories |-> categories, chores |-> chores,
   data |-> <<>>]

\* one more user event, while the run has some left
UserEvent ==
  /\ ops < MaxOps
  /\ ops' = ops + 1

Remove(s, i) == SubSeq(s, 1, i - 1) \o SubSeq(s, i + 1, Len(s))

\* the handler's position advances to its next remote call, which it issues
\* after the calls the other suspended handlers wait for: the suspended
\* handlers are kept in the order in which their calls were issued
Advance(i, step, data) ==
  Append(Remove(inflight, i), [inflight[i] EXCEPT !.step = step, !.data = data])

\* the suspended handlers that wait at `op'
Waiting(op, step) ==
  {i \in 1..Len(inflight) : inflight[i].op = op /\ inflight[i].step = step}

-----------------------------------------------------------------------------
(* Initial state *)

\* JavaScript null for the session's strings (falsy, like the empty string)
NoString == <<>>

\* A household nobody has used yet.
SeedEmpty ==
  [assignees |-> <<>>, categories |-> <<>>, chores |-> <<>>,
   households |-> <<>>, profiles |-> <<>>,
   nextId |-> [assignee |-> 1, category |-> 1, chore |-> 1, profile |-> 1]]

\* A household earlier sessions have filled: two assignees, a category with
\* a default assignee, and one chore under it with no direct assignee.
SeedHome ==
  [assignees |-> <<AssigneeRow(1, <<"A">>, HOME), AssigneeRow(2, <<"S">>, HOME)>>,
   categories |-> <<CategoryRow(1, <<"k">>, HOME, <<1>>)>>,
   chores |-> <<ChoreRow(1, <<"m">>, FALSE, HOME, <<>>, 1)>>,
   households |-> <<HouseholdRow(HOME)>>,
   profiles |-> <<ProfileRow(1, <<"a">>, HOME)>>,
   nextId |-> [assignee |-> 3, category |-> 2, chore |-> 2, profile |-> 2]]

Seeds == {SeedEmpty, SeedHome}

\* The display names a session logs in with, as typed.
LoginNames == {<<" ", "a">>, <<" ">>}

\* The household codes typed into the join form.
JoinCodes == {<<" ", "h">>, <<"g">>, <<" ">>}

\* No persisted session: localStorage.getItem returns null for each key.
NoSession == [userId |-> NULL, userName |-> NoString, householdId |-> NoString]

\* What an earlier visit can have left in localStorage: nothing, the session
\* of the profile it created, or that session with a key removed by hand.
StoredSessions(seed) ==
  {NoSession} \cup
  UNION {{[userId |-> seed.profiles[k].id, userName |-> seed.profiles[k].name,
           householdId |-> seed.profiles[k].household_id],
          [userId |-> seed.profiles[k].id, userName |-> NoString,
           householdId |-> seed.profiles[k].household_id]}
         : k \in 1..Len(seed.profiles)}

\* The second browser session has not yet joined.
OtherIdle ==
  [step |-> "login", userName |-> NoString, householdId |-> NoString,
   data |-> <<>>, assignees |-> <<>>, console |-> {}]

\* What the user can have typed into a title or name field.
TextInputs == {<<" ">>, <<" ", "w", " ">>}

\* The component as constructed (useState initial values, page.tsx:58-98),
\* in front of the tables of some household.
Init ==
  /\ isAuthenticated = FALSE
  /\ userId = NULL
  /\ userName = NoString
  /\ householdId = NoString
  /\ assignees = <<>>
  /\ categories = <<>>
  /\ chores = <<>>
  /\ isLoading = FALSE
  /\ error = NoError
  /\ isMounted = FALSE
  /\ loginError = NoError
  /\ console = {}
  /\ \E seed \in Seeds :
       /\ dbAssignees = seed.assignees
       /\ dbCategories = seed.categories
       /\ dbChores = seed.chores
       /\ dbHouseholds = seed.households
       /\ dbProfiles = seed.profiles
       /\ nextId = seed.nextId
       /\ localStorage \in StoredSessions(seed)
  /\ other = OtherIdle
  /\ inflight = <<>>
  /\ resolved = <<>>
  /\ ops = 0

-----------------------------------------------------------------------------
(* Login and the initial load *)

\* The load effect (page.tsx:215-221, 298-299) runs after a render in which
\* isAuthenticated, householdId or userName has changed; loadDataFromSupabase
\* suspends at its first query.  `rest' are the handlers still suspended.
LoadEffect(rest, name, household) ==
  IF household # NoString /\ name # NoString
  THEN /\ isLoading' = TRUE
       /\ error' = NoError
       /\ inflight' = Append(rest,
            [op |-> "loadDataFromSupabase", step |-> 1, id |-> NULL,
             arg |-> NULL, text |-> <<>>, householdId |-> household,
             userName |-> name, assignees |-> assignees,
             categories |-> categories, chores |-> chores, data |-> <<>>])
  ELSE /\ inflight' = rest
       /\ UNCHANGED <<isLoading, error>>

\* the handlers of the main page that are still suspended: the join handler
\* that called onLogin returns
Returned == LET Main(h) == h.op # "handleJoinHousehold" IN SelectSeq(inflight, Main)

\* handleLogin (page.tsx:118-123), called by the login screen after a
\* successful join, and the load effect of the render that follows.
handleLogin(name, household, uid) ==
  /\ ~isAuthenticated
  /\ userName' = name
  /\ householdId' = household
  /\ userId' = uid
  /\ isAuthenticated' = TRUE
  /\ LoadEffect(Returned, name, household)

\* A test of the persisted session that looks at the user id only.
hasSavedUser(saved) == saved.userId # NULL

\* `savedUserId && savedUserName && savedHouseholdId' (page.tsx:110)
hasSavedSession(saved) ==
  /\ saved.userId # NULL
  /\ saved.userName # NoString
  /\ saved.householdId # NoString

\* The effects of the first render (page.tsx:100-116): isMounted is set and
\* a persisted session is restored; the load effect follows.
Mount ==
  /\ ~isMounted
  /\ isMounted' = TRUE
  /\ IF hasSavedSession(localStorage)
     THEN /\ userId' = localStorage.userId
          /\ userName' = localStorage.userName
          /\ householdId' = localStorage.householdId
          /\ isAuthenticated' = TRUE
          /\ LoadEffect(inflight, localStorage.userName, localStorage.householdId)
     ELSE UNCHANGED <<session, isLoading, error, inflight>>
  /\ UNCHANGED <<store, remote, resolved, localStorage, loginError, identity,
                 console, other, ops>>

\* A sign-out that leaves the household code in localStorage.
removeUserItems(saved) ==
  [saved EXCEPT !.userId = NULL, !.userName = NoString]

\* localStorage.removeItem of the three keys (page.tsx:131-133)
removeItems(saved) ==
  [saved EXCEPT !.userId = NULL, !.userName = NoString, !.householdId = NoString]

\* handleSignOut (page.tsx:125-139); the button is part of the main page.
\* The store is left as it is; the login screen is mounted anew.
handleSignOut(confirmed) ==
  /\ isAuthenticated
  /\ ~isLoading
  /\ UserEvent
  /\ IF confirmed
     THEN /\ localStorage' = removeItems(localStorage)
          /\ userId' = NULL
          /\ userName' = NoString
          /\ householdId' = NoString
          /\ isAuthenticated' = FALSE
          /\ loginError' = NoError
     ELSE UNCHANGED <<session, localStorage, loginError>>
  /\ UNCHANGED <<store, isLoading, error, remote, inflight, resolved,
                 isMounted, identity, console, other>>

-----------------------------------------------------------------------------
(* The login screen (src/lib/supabaseClient.ts) *)

\* A normalization that only changes the case.
upperCasedCode(householdCode) == ToUpperCase(householdCode)

\* normalizedCode (supabaseClient.ts:50)
normalizedCode(householdCode) == ToUpperCase(Trim(householdCode))

\* LoginScreen's isLoading: set before the first await, reset in finally
\* (supabaseClient.ts:42, 96)
LoginLoading == \E i \in 1..Len(inflight) : inflight[i].op = "handleJoinHousehold"

\* What a failed call of the join throws: the error object of the call, an
\* instance of Error or not according to the version of the client library.
JoinErrors == {[kind |-> k, message |-> m] : k \in {"Error", "object"}, m \in ErrMsgs}

\* A catch block that leaves the error state alone.
LoginCatchSilently(err) == UNCHANGED loginError

\* the catch block of handleJoinHousehold (supabaseClient.ts:92-95)
LoginCatch(err) ==
  loginError' = IF err.kind = "Error" THEN err.message
                ELSE "Failed to join household. Please try again."

\* handleJoinHousehold up to its first await (supabaseClient.ts:31-47).  The
\* code field holds what was typed, upper-cased by its onChange
\* (supabaseClient.ts:153); Enter in either field calls the handler whatever
\* the fields hold (supabaseClient.ts:135, 154).
handleJoinHousehold(name, typedCode) ==
  LET householdCode == ToUpperCase(typedCode)
  IN /\ isMounted
     /\ ~isAuthenticated
     /\ ~LoginLoading
     /\ UserEvent
     /\ IF Trim(name) = <<>>
        THEN /\ loginError' = "Please enter your name"
             /\ UNCHANGED inflight
        ELSE IF Trim(householdCode) = <<>>
        THEN /\ loginError' = "Please enter a household code"
             /\ UNCHANGED inflight
        ELSE /\ loginError' = NoError
             /\ Len(inflight) < MaxInflight
             /\ inflight' = Append(inflight,
                  [Handler("handleJoinHousehold", NULL, NULL, name)
                     EXCEPT !.data = householdCode])
     /\ UNCHANGED <<session, store, isLoading, error, remote, resolved,
                    isMounted, localStorage, identity, console, other>>

\* handleJoinHousehold, the lookup of the household succeeds
\* (supabaseClient.ts:54-66)
JoinFindsHousehold(i) ==
  LET h == inflight[i]
      existingHousehold == Has(dbHouseholds, normalizedCode(h.data))
  IN /\ i \in Waiting("handleJoinHousehold", 1)
     /\ inflight' = [inflight EXCEPT ![i].step = IF existingHousehold THEN 3 ELSE 2]
     /\ UNCHANGED <<session, store, isLoading, error, remote, resolved,
                    screen, identity, console, other, ops>>

\* handleJoinHousehold, the insert of the household succeeds: its id is the
\* primary key (supabaseClient.ts:66-72)
JoinCreatesHousehold(i) ==
  LET h == inflight[i]
  IN /\ i \in Waiting("handleJoinHousehold", 2)
     /\ ~Has(dbHouseholds, normalizedCode(h.data))
     /\ dbHouseholds' = Append(dbHouseholds, HouseholdRow(normalizedCode(h.data)))
     /\ inflight' = [inflight EXCEPT ![i].step = 3]
     /\ UNCHANGED <<session, store, isLoading, error, remote, resolved,
                    screen, dbProfiles, console, other, ops>>

\* A join that takes up the profile an earlier join of the same name and
\* household has inserted, and inserts one only when there is none.
JoinReusesProfile(i) ==
  LET h == inflight[i]
      Mine(row) == row.name = Trim(h.text) /\ row.household_id = normalizedCode(h.data)
      earlier == SelectSeq(dbProfiles, Mine)
      profile == IF earlier # <<>> THEN earlier[1]
                 ELSE ProfileRow(nextId.profile, Trim(h.text), normalizedCode(h.data))
  IN /\ i \in Waiting("handleJoinHousehold", 3)
     /\ Has(dbHouseholds, profile.household_id)
     /\ dbProfiles' = IF earlier # <<>> THEN dbProfiles ELSE Append(dbProfiles, profile)
     /\ nextId' = IF earlier # <<>> THEN nextId ELSE [nextId EXCEPT !.profile = @ + 1]
     /\ localStorage' = [userId |-> profile.id, userName |-> Trim(h.text),
                         householdId |-> normalizedCode(h.data)]
     /\ handleLogin(Trim(h.text), normalizedCode(h.data), profile.id)
     /\ UNCHANGED <<store, dbAssignees, dbCategories, dbChores, dbHouseholds,
                    resolved, isMounted, loginError, console, other, ops>>

\* handleJoinHousehold, the insert of the profile succeeds: the session is
\* persisted and handed to onLogin (supabaseClient.ts:74-91)
JoinCreatesProfile(i) ==
  LET h == inflight[i]
      profile == ProfileRow(nextId.profile, Trim(h.text), normalizedCode(h.data))
  IN /\ i \in Waiting("handleJoinHousehold", 3)
     /\ Has(dbHouseholds, profile.household_id)
     /\ dbProfiles' = Append(dbProfiles, profile)
     /\ nextId' = [nextId EXCEPT !.profile = @ + 1]
     /\ localStorage' = [userId |-> profile.id, userName |-> Trim(h.text),
                         householdId |-> normalizedCode(h.data)]
     /\ handleLogin(Trim(h.text), normalizedCode(h.data), profile.id)
     /\ UNCHANGED <<store, dbAssignees, dbCategories, dbChores, dbHouseholds,
                    resolved, isMounted, loginError, console, other, ops>>

\* handleJoinHousehold, one of its remote calls fails
\* (supabaseClient.ts:61-63, 71, 84, 92-98)
JoinFailed(i, err) ==
  /\ i \in 1..Len(inflight)
  /\ inflight[i].op = "handleJoinHousehold"
  /\ LoginCatch(err)
  /\ inflight' = Remove(inflight, i)
  /\ UNCHANGED <<session, store, isLoading, error, remote, resolved,
                 isMounted, localStorage, identity, console, other, ops>>

-----------------------------------------------------------------------------
(* The load *)

\* The catch and finally blocks of loadDataFromSupabase (page.tsx:287-295)
LoadFailed(i, err) ==
  /\ console' = console \cup {"Failed to load data from Supabase:"}
  /\ error' = OrElse(getErrorMessage(err),
                     "Failed to load your chores. Please refresh the page.")
  /\ isLoading' = FALSE
  /\ inflight' = Remove(inflight, i)

\* A userExists that is content with any assignee of the household.
userExistsAlready(assigneesData, name) == assigneesData # <<>>

\* A userExists that compares the names as they are written.
userExistsExactly(assigneesData, name) ==
  \E k \in 1..Len(assigneesData) : assigneesData[k].name = name

\* userExists (page.tsx:232-234)
userExists(assigneesData, name) ==
  \E k \in 1..Len(assigneesData) :
    ToLowerCase(assigneesData[k].name) = ToLowerCase(name)

\* loadDataFromSupabase, the assignees query (page.tsx:225-253)
LoadAssignees(i) ==
  LET h == inflight[i]
      assigneesData == SelectByHousehold(dbAssignees, h.householdId)
  IN /\ i \in Waiting("loadDataFromSupabase", 1)
     /\ \/ \E err \in RemoteErrors :
             /\ LoadFailed(i, err)
             /\ UNCHANGED assignees
        \/ IF ~userExists(assigneesData, h.userName) /\ h.userName # NoString
           THEN /\ inflight' = Advance(i, 2, assigneesData)
                /\ UNCHANGED <<assignees, isLoading, error, console>>
           ELSE /\ assignees' = assigneesData
                /\ inflight' = Advance(i, 3, <<>>)
                /\ UNCHANGED <<isLoading, error, console>>
     /\ UNCHANGED <<session, categories, chores, remote, resolved, screen,
                    identity, other, ops>>

\* loadDataFromSupabase, the insert of the user's own assignee succeeds
\* (page.tsx:236-248)
LoadCreateAssigneeDone(i) ==
  LET h == inflight[i]
      newAssignee == AssigneeRow(nextId.assignee, h.userName, h.householdId)
  IN /\ i \in Waiting("loadDataFromSupabase", 2)
     /\ dbAssignees' = Append(dbAssignees, newAssignee)
     /\ nextId' = [nextId EXCEPT !.assignee = @ + 1]
     /\ assignees' = h.data \o <<newAssignee>>
     /\ inflight' = Advance(i, 3, <<>>)
     /\ UNCHANGED <<session, categories, chores, isLoading, error,
                    dbCategories, dbChores, resolved, screen, identity, console, other, ops>>

\* loadDataFromSupabase, the insert of the user's own assignee fails: the
\* failure is logged and the load goes on (page.tsx:245-246)
LoadCreateAssigneeFailed(i) ==
  /\ i \in Waiting("loadDataFromSupabase", 2)
  /\ console' = console \cup {"Failed to auto-create assignee:"}
  /\ inflight' = Advance(i, 3, <<>>)
  /\ UNCHANGED <<session, store, isLoading, error, remote, resolved, screen,
                 identity, other, ops>>

\* loadDataFromSupabase, the insert of the user's own assignee
\* (page.tsx:236-250)
LoadCreateAssignee(i) ==
  LoadCreateAssigneeDone(i) \/ LoadCreateAssigneeFailed(i)

\* loadDataFromSupabase, the categories query (page.tsx:255-269)
LoadCategories(i) ==
  LET h == inflight[i]
      categoriesData == SelectByHousehold(dbCategories, h.householdId)
  IN /\ i \in Waiting("loadDataFromSupabase", 3)
     /\ \/ \E err \in RemoteErrors :
             /\ LoadFailed(i, err)
             /\ UNCHANGED categories
        \/ /\ categories' = MapCategories(categoriesData)
           /\ inflight' = Advance(i, 4, <<>>)
           /\ UNCHANGED <<isLoading, error, console>>
     /\ UNCHANGED <<session, assignees, chores, remote, resolved, screen,
                    identity, other, ops>>

\* loadDataFromSupabase, the chores query (page.tsx:271-295)
LoadChores(i) ==
  LET h == inflight[i]
      choresData == SelectByHousehold(dbChores, h.householdId)
  IN /\ i \in Waiting("loadDataFromSupabase", 4)
     /\ \/ \E err \in RemoteErrors :
             /\ LoadFailed(i, err)
             /\ UNCHANGED chores
        \/ /\ chores' = MapChores(choresData)
           /\ isLoading' = FALSE
           /\ inflight' = Remove(inflight, i)
           /\ UNCHANGED <<error, console>>
     /\ UNCHANGED <<session, assignees, categories, remote, resolved, screen,
                    identity, other, ops>>

-----------------------------------------------------------------------------
(* What the rendered page lets the user do *)

\* The main page is rendered: not the login screen (page.tsx:804-806) and
\* not the loading screen (page.tsx:808-822).
Interactive == isAuthenticated /\ ~isLoading

\* A chore is listed under its category when that category is open
\* (page.tsx:1316-1318, 1525), or in the uncategorized section
\* (page.tsx:1911-1913).
Rendered(chore) ==
  \/ chore.categoryId = NULL
  \/ \E k \in 1..Len(categories) :
       categories[k].id = chore.categoryId /\ categories[k].isOpen

RenderedChores == {chores[k].id : k \in {j \in 1..Len(chores) : Rendered(chores[j])}}

Suspend(h) ==
  /\ Len(inflight) < MaxInflight
  /\ inflight' = Append(inflight, h)

\* A catch block that shows the error's own message, empty or not.
CatchWithoutFallback(err, fallback) == error' = getErrorMessage(err)

\* the catch block of a handler: setError(getErrorMessage(err) || fallback)
Catch(err, fallback) == error' = OrElse(getErrorMessage(err), fallback)

-----------------------------------------------------------------------------
(* Array.prototype.map updates of the store, and updates of the tables *)

SetCompleted(cs, id, v) ==
  [k \in 1..Len(cs) |-> IF cs[k].id = id THEN [cs[k] EXCEPT !.completed = v] ELSE cs[k]]

SetAssigneeIds(xs, id, v) ==
  [k \in 1..Len(xs) |-> IF xs[k].id = id THEN [xs[k] EXCEPT !.assigneeIds = v] ELSE xs[k]]

SetCategoryId(cs, id, v) ==
  [k \in 1..Len(cs) |-> IF cs[k].id = id THEN [cs[k] EXCEPT !.categoryId = v] ELSE cs[k]]

\* .update({ completed: v }).eq("id", id)
UpdateCompleted(table, id, v) ==
  [k \in 1..Len(table) |->
     IF table[k].id = id THEN [table[k] EXCEPT !.completed = v] ELSE table[k]]

\* .update({ assignee_ids: v }).eq("id", id)
UpdateAssigneeIds(table, id, v) ==
  [k \in 1..Len(table) |->
     IF table[k].id = id THEN [table[k] EXCEPT !.assignee_ids = v] ELSE table[k]]

\* .update({ category_id: v }).eq("id", id)
UpdateCategoryId(table, id, v) ==
  [k \in 1..Len(table) |->
     IF table[k].id = id THEN [table[k] EXCEPT !.category_id = v] ELSE table[k]]

\* .update({ category_id: null }).eq("category_id", cat)
ClearCategoryId(table, cat) ==
  [k \in 1..Len(table) |->
     IF table[k].category_id = cat THEN [table[k] EXCEPT !.category_id = NULL]
     ELSE table[k]]

\* A toggle that only ever adds.
ToggledOn(ids, assigneeId) == Append(ids, assigneeId)

\* isAssigned ? filter : append (page.tsx:599-602, 664-667)
Toggled(ids, assigneeId) ==
  IF Includes(ids, assigneeId) THEN Without(ids, assigneeId)
  ELSE Append(ids, assigneeId)

-----------------------------------------------------------------------------
(* Toggles: one optimistic update, one remote update, rollback on failure *)

\* handleToggleChore up to its await (page.tsx:475-483)
handleToggleChore(choreId) ==
  /\ Interactive
  /\ UserEvent
  /\ choreId \in RenderedChores
  /\ chores' = SetCompleted(chores, choreId, ~Find(chores, choreId).completed)
  /\ Suspend(Handler("handleToggleChore", choreId, NULL, <<>>))
  /\ UNCHANGED <<session, assignees, categories, isLoading, error, remote, resolved, screen, identity, console, other>>

\* A rollback that writes the toggled value again.
RollbackToToggledChore(h) ==
  SetCompleted(h.chores, h.id, ~Find(h.chores, h.id).completed)

\* the rollback of handleToggleChore (page.tsx:496-500)
RollbackToggleChore(h) ==
  SetCompleted(h.chores, h.id, Find(h.chores, h.id).completed)

\* handleToggleChore, its remote update succeeds (page.tsx:485-493)
ToggleChoreDone(i) ==
  LET h == inflight[i]
      chore == Find(h.chores, h.id)
  IN /\ i \in Waiting("handleToggleChore", 1)
     /\ dbChores' = UpdateCompleted(dbChores, h.id, ~chore.completed)
     /\ inflight' = Remove(inflight, i)
     /\ UNCHANGED <<session, store, isLoading, error, dbAssignees,
                    dbCategories, nextId, resolved, screen, identity, console, other, ops>>

\* handleToggleChore, its remote update fails (page.tsx:493-504)
ToggleChoreFailed(i, err) ==
  LET h == inflight[i]
  IN /\ i \in Waiting("handleToggleChore", 1)
     /\ chores' = RollbackToggleChore(h)
     /\ Catch(err, "Failed to update chore. Please try again.")
     /\ inflight' = Remove(inflight, i)
     /\ UNCHANGED <<session, assignees, categories, isLoading, remote,
                    resolved, screen, identity, console, other, ops>>

\* handleToggleAssignee up to its await (page.tsx:660-673)
handleToggleAssignee(choreId, assigneeId) ==
  /\ Interactive
  /\ UserEvent
  /\ choreId \in RenderedChores
  /\ assigneeId \in Ids(assignees)
  /\ chores' = SetAssigneeIds(chores, choreId,
                              Toggled(Find(chores, choreId).assigneeIds, assigneeId))
  /\ Suspend(Handler("handleToggleAssignee", choreId, assigneeId, <<>>))
  /\ UNCHANGED <<session, assignees, categories, isLoading, error, remote, resolved, screen, identity, console, other>>

\* the rollback of handleToggleAssignee (page.tsx:686-690)
RollbackToggleAssignee(h) ==
  SetAssigneeIds(h.chores, h.id, Find(h.chores, h.id).assigneeIds)

\* handleToggleAssignee, its remote update succeeds (page.tsx:675-683)
ToggleAssigneeDone(i) ==
  LET h == inflight[i]
      chore == Find(h.chores, h.id)
      newAssigneeIds == Toggled(chore.assigneeIds, h.arg)
  IN /\ i \in Waiting("handleToggleAssignee", 1)
     /\ dbChores' = UpdateAssigneeIds(dbChores, h.id, newAssigneeIds)
     /\ inflight' = Remove(inflight, i)
     /\ UNCHANGED <<session, store, isLoading, error, dbAssignees,
                    dbCategories, nextId, resolved, screen, identity, console, other, ops>>

\* handleToggleAssignee, its remote update fails (page.tsx:683-694)
ToggleAssigneeFailed(i, err) ==
  LET h == inflight[i]
  IN /\ i \in Waiting("handleToggleAssignee", 1)
     /\ chores' = RollbackToggleAssignee(h)
     /\ Catch(err, "Failed to update assignees. Please try again.")
     /\ inflight' = Remove(inflight, i)
     /\ UNCHANGED <<session, assignees, categories, isLoading, remote,
                    resolved, screen, identity, console, other, ops>>

\* handleToggleCategoryAssignee up to its await (page.tsx:592-608)
handleToggleCategoryAssignee(categoryId, assigneeId) ==
  /\ Interactive
  /\ UserEvent
  /\ categoryId \in Ids(categories)
  /\ assigneeId \in Ids(assignees)
  /\ categories' = SetAssigneeIds(categories, categoryId,
                     Toggled(Find(categories, categoryId).assigneeIds, assigneeId))
  /\ Suspend(Handler("handleToggleCategoryAssignee", categoryId, assigneeId, <<>>))
  /\ UNCHANGED <<session, assignees, chores, isLoading, error, remote, resolved, screen, identity, console, other>>

\* the rollback of handleToggleCategoryAssignee (page.tsx:621-627)
RollbackToggleCategoryAssignee(h) ==
  SetAssigneeIds(h.categories, h.id, Find(h.categories, h.id).assigneeIds)

\* handleToggleCategoryAssignee, its remote update succeeds
\* (page.tsx:610-618)
ToggleCategoryAssigneeDone(i) ==
  LET h == inflight[i]
      category == Find(h.categories, h.id)
      newAssigneeIds == Toggled(category.assigneeIds, h.arg)
  IN /\ i \in Waiting("handleToggleCategoryAssignee", 1)
     /\ dbCategories' = UpdateAssigneeIds(dbCategories, h.id, newAssigneeIds)
     /\ inflight' = Remove(inflight, i)
     /\ UNCHANGED <<session, store, isLoading, error, dbAssignees,
                    dbChores, nextId, resolved, screen, identity, console, other, ops>>

\* handleToggleCategoryAssignee, its remote update fails (page.tsx:618-631)
ToggleCategoryAssigneeFailed(i, err) ==
  LET h == inflight[i]
  IN /\ i \in Waiting("handleToggleCategoryAssignee", 1)
     /\ categories' = RollbackToggleCategoryAssignee(h)
     /\ Catch(err, "Failed to update assignees. Please try again.")
     /\ inflight' = Remove(inflight, i)
     /\ UNCHANGED <<session, assignees, chores, isLoading, remote,
                    resolved, screen, identity, console, other, ops>>

\* handleToggleCategory (page.tsx:790-802)
handleToggleCategory(categoryId) ==
  /\ Interactive
  /\ UserEvent
  /\ categoryId \in Ids(categories)
  /\ categories' = [k \in 1..Len(categories) |->
                      IF categories[k].id = categoryId
                      THEN [categories[k] EXCEPT !.isOpen = ~@]
                      ELSE categories[k]]
  /\ UNCHANGED <<session, assignees, chores, isLoading, error, remote,
                 inflight, resolved, screen, identity, console, other>>

\* the error banner's dismiss button (page.tsx:842)
DismissError ==
  /\ Interactive
  /\ UserEvent
  /\ error # NoError
  /\ error' = NoError
  /\ UNCHANGED <<session, store, isLoading, remote, inflight, resolved, screen, identity, console, other>>

-----------------------------------------------------------------------------
(* Deletes and moves: optimistic update, remote calls, error on failure *)

\* handleDeleteChore up to its await (page.tsx:697-700)
handleDeleteChore(choreId) ==
  /\ Interactive
  /\ UserEvent
  /\ choreId \in RenderedChores
  /\ chores' = DeleteById(chores, choreId)
  /\ Suspend(Handler("handleDeleteChore", choreId, NULL, <<>>))
  /\ UNCHANGED <<session, assignees, categories, isLoading, error, remote, resolved, screen, identity, console, other>>

\* handleDeleteChore, its remote delete succeeds (page.tsx:702-710)
DeleteChoreDone(i) ==
  LET h == inflight[i]
  IN /\ i \in Waiting("handleDeleteChore", 1)
     /\ dbChores' = DeleteById(dbChores, h.id)
     /\ inflight' = Remove(inflight, i)
     /\ UNCHANGED <<session, store, isLoading, error, dbAssignees,
                    dbCategories, nextId, resolved, screen, identity, console, other, ops>>

\* handleDeleteChore, its remote delete fails (page.tsx:710-717)
DeleteChoreFailed(i, err) ==
  /\ i \in Waiting("handleDeleteChore", 1)
  /\ Catch(err, "Failed to delete chore. Please refresh the page.")
  /\ inflight' = Remove(inflight, i)
  /\ UNCHANGED <<session, store, isLoading, remote, resolved, screen, identity, console, other, ops>>

\* handleDeleteCategory up to its await (page.tsx:720-736)
handleDeleteCategory(categoryId) ==
  /\ Interactive
  /\ UserEvent
  /\ categoryId \in Ids(categories)
  /\ categories' = DeleteById(categories, categoryId)
  /\ chores' = [k \in 1..Len(chores) |->
                  IF chores[k].categoryId = categoryId
                  THEN [chores[k] EXCEPT !.categoryId = NULL]
                  ELSE chores[k]]
  /\ Suspend(Handler("handleDeleteCategory", categoryId, NULL, <<>>))
  /\ UNCHANGED <<session, assignees, isLoading, error, remote, resolved, screen, identity, console, other>>

\* handleDeleteCategory, the update that uncategorizes the chores succeeds
\* (page.tsx:738-746)
DeleteCategoryClearsChores(i) ==
  LET h == inflight[i]
  IN /\ i \in Waiting("handleDeleteCategory", 1)
     /\ dbChores' = ClearCategoryId(dbChores, h.id)
     /\ inflight' = Advance(i, 2, <<>>)
     /\ UNCHANGED <<session, store, isLoading, error, dbAssignees,
                    dbCategories, nextId, resolved, screen, identity, console, other, ops>>

\* A delete of the category row that does not wait for the update of the
\* chores.
DeleteCategoryDoneUnordered(i) ==
  LET h == inflight[i]
  IN /\ i \in Waiting("handleDeleteCategory", 1) \cup Waiting("handleDeleteCategory", 2)
     /\ DeletableCategory(h.id)
     /\ dbCategories' = DeleteById(dbCategories, h.id)
     /\ inflight' = Remove(inflight, i)
     /\ UNCHANGED <<session, store, isLoading, error, dbAssignees, dbChores,
                    nextId, resolved, screen, identity, console, other, ops>>

\* handleDeleteCategory, the delete of the category row succeeds
\* (page.tsx:748-753)
DeleteCategoryDone(i) ==
  LET h == inflight[i]
  IN /\ i \in Waiting("handleDeleteCategory", 2)
     /\ DeletableCategory(h.id)
     /\ dbCategories' = DeleteById(dbCategories, h.id)
     /\ inflight' = Remove(inflight, i)
     /\ UNCHANGED <<session, store, isLoading, error, dbAssignees, dbChores,
                    nextId, resolved, screen, identity, console, other, ops>>

\* handleDeleteCategory, either remote call fails (page.tsx:746, 753-760)
DeleteCategoryFailed(i, err) ==
  /\ i \in Waiting("handleDeleteCategory", 1) \cup Waiting("handleDeleteCategory", 2)
  /\ Catch(err, "Failed to delete category. Please refresh the page.")
  /\ inflight' = Remove(inflight, i)
  /\ UNCHANGED <<session, store, isLoading, remote, resolved, screen, identity, console, other, ops>>

\* The category selector of a rendered chore: a chore under a category can
\* move to another category or to none when there is more than one category
\* (page.tsx:1645-1668); an uncategorized chore can move to any category
\* (page.tsx:1975-1995).  onChange fires when the selection changes.
MoveTargets(chore) ==
  IF chore.categoryId # NULL
  THEN IF Len(categories) > 1
       THEN (Ids(categories) \cup {NULL}) \ {chore.categoryId}
       ELSE {}
  ELSE Ids(categories)

\* handleMoveChoreToCategory up to its await (page.tsx:763-771)
handleMoveChoreToCategory(choreId, categoryId) ==
  /\ Interactive
  /\ UserEvent
  /\ choreId \in RenderedChores
  /\ categoryId \in MoveTargets(Find(chores, choreId))
  /\ chores' = SetCategoryId(chores, choreId, categoryId)
  /\ Suspend(Handler("handleMoveChoreToCategory", choreId, categoryId, <<>>))
  /\ UNCHANGED <<session, assignees, categories, isLoading, error, remote, resolved, screen, identity, console, other>>

\* handleMoveChoreToCategory, its remote update succeeds (page.tsx:773-781)
MoveChoreDone(i) ==
  LET h == inflight[i]
  IN /\ i \in Waiting("handleMoveChoreToCategory", 1)
     /\ ForeignKeyOk(h.arg)
     /\ dbChores' = UpdateCategoryId(dbChores, h.id, h.arg)
     /\ inflight' = Remove(inflight, i)
     /\ UNCHANGED <<session, store, isLoading, error, dbAssignees,
                    dbCategories, nextId, resolved, screen, identity, console, other, ops>>

\* handleMoveChoreToCategory, its remote update fails (page.tsx:781-787)
MoveChoreFailed(i, err) ==
  /\ i \in Waiting("handleMoveChoreToCategory", 1)
  /\ Catch(err, "Failed to move chore. Please refresh the page.")
  /\ inflight' = Remove(inflight, i)
  /\ UNCHANGED <<session, store, isLoading, remote, resolved, screen, identity, console, other, ops>>

\* choresUsingAssignee, categoriesUsingAssignee (page.tsx:145-150)
UsingAssignee(xs, assigneeId) ==
  LET Uses(x) == Includes(x.assigneeIds, assigneeId) IN SelectSeq(xs, Uses)

\* the optimistic strip of an assignee (page.tsx:165-176)
StripAssignee(xs, assigneeId) ==
  [k \in 1..Len(xs) |->
     [xs[k] EXCEPT !.assigneeIds = Without(xs[k].assigneeIds, assigneeId)]]

\* handleDeleteAssignee up to its first await (page.tsx:141-177)
handleDeleteAssignee(assigneeId) ==
  /\ Interactive
  /\ UserEvent
  /\ assigneeId \in Ids(assignees)
  /\ chores' = StripAssignee(chores, assigneeId)
  /\ categories' = StripAssignee(categories, assigneeId)
  /\ assignees' = DeleteById(assignees, assigneeId)
  /\ Suspend(Handler("handleDeleteAssignee", assigneeId, NULL, <<>>))
  /\ UNCHANGED <<session, isLoading, error, remote, resolved, screen, identity, console, other>>

\* the suspended handleDeleteAssignee waits for the update of a chore
\* (page.tsx:182-189)
AtChoreUpdate(i) ==
  /\ i \in 1..Len(inflight)
  /\ inflight[i].op = "handleDeleteAssignee"
  /\ inflight[i].step <= Len(UsingAssignee(inflight[i].chores, inflight[i].id))

\* the suspended handleDeleteAssignee waits for the update of a category
\* (page.tsx:191-198)
AtCategoryUpdate(i) ==
  /\ i \in 1..Len(inflight)
  /\ inflight[i].op = "handleDeleteAssignee"
  /\ inflight[i].step > Len(UsingAssignee(inflight[i].chores, inflight[i].id))
  /\ inflight[i].step <= Len(UsingAssignee(inflight[i].chores, inflight[i].id))
                         + Len(UsingAssignee(inflight[i].categories, inflight[i].id))

\* handleDeleteAssignee, one update of the loop over the chores that used
\* the assignee succeeds (page.tsx:182-189)
DeleteAssigneeUpdatesChore(i) ==
  LET h == inflight[i]
      chore == UsingAssignee(h.chores, h.id)[h.step]
  IN /\ AtChoreUpdate(i)
     /\ dbChores' = UpdateAssigneeIds(dbChores, chore.id,
                                      Without(chore.assigneeIds, h.id))
     /\ inflight' = Advance(i, h.step + 1, Append(h.data, "ok"))
     /\ UNCHANGED <<session, store, isLoading, error, dbAssignees,
                    dbCategories, nextId, resolved, screen, identity, console, other, ops>>

\* handleDeleteAssignee, one update of a chore fails: the result of the
\* awaited update is not read and the loop goes on (page.tsx:182-189)
DeleteAssigneeChoreUpdateFailed(i) ==
  /\ AtChoreUpdate(i)
  /\ inflight' = Advance(i, inflight[i].step + 1, Append(inflight[i].data, "error"))
  /\ UNCHANGED <<session, store, isLoading, error, remote, resolved, screen, identity, console, other, ops>>

\* handleDeleteAssignee, one update of the loop over the categories that
\* used the assignee succeeds (page.tsx:191-198)
DeleteAssigneeUpdatesCategory(i) ==
  LET h == inflight[i]
      cat == UsingAssignee(h.categories, h.id)
               [h.step - Len(UsingAssignee(h.chores, h.id))]
  IN /\ AtCategoryUpdate(i)
     /\ dbCategories' = UpdateAssigneeIds(dbCategories, cat.id,
                                          Without(cat.assigneeIds, h.id))
     /\ inflight' = Advance(i, h.step + 1, Append(h.data, "ok"))
     /\ UNCHANGED <<session, store, isLoading, error, dbAssignees,
                    dbChores, nextId, resolved, screen, identity, console, other, ops>>

\* handleDeleteAssignee, one update of a category fails: its result is not
\* read either (page.tsx:191-198)
DeleteAssigneeCategoryUpdateFailed(i) ==
  /\ AtCategoryUpdate(i)
  /\ inflight' = Advance(i, inflight[i].step + 1, Append(inflight[i].data, "error"))
  /\ UNCHANGED <<session, store, isLoading, error, remote, resolved, screen, identity, console, other, ops>>

\* the suspended handleDeleteAssignee has made all its updates and waits for
\* the delete of the assignee row
AtAssigneeDelete(i) ==
  /\ i \in 1..Len(inflight)
  /\ inflight[i].op = "handleDeleteAssignee"
  /\ inflight[i].step = Len(UsingAssignee(inflight[i].chores, inflight[i].id))
                        + Len(UsingAssignee(inflight[i].categories, inflight[i].id)) + 1

\* handleDeleteAssignee, the delete of the assignee row succeeds
\* (page.tsx:200-205)
DeleteAssigneeDone(i) ==
  /\ AtAssigneeDelete(i)
  /\ dbAssignees' = DeleteById(dbAssignees, inflight[i].id)
  /\ inflight' = Remove(inflight, i)
  /\ UNCHANGED <<session, store, isLoading, error, dbCategories, dbChores,
                 nextId, resolved, screen, identity, console, other, ops>>

\* handleDeleteAssignee, the delete of the assignee row fails
\* (page.tsx:205-212)
DeleteAssigneeFailed(i, err) ==
  /\ AtAssigneeDelete(i)
  /\ Catch(err, "Failed to delete assignee. Please refresh the page.")
  /\ inflight' = Remove(inflight, i)
  /\ UNCHANGED <<session, store, isLoading, remote, resolved, screen, identity, console, other, ops>>

-----------------------------------------------------------------------------
(* Adds: validate, show the loading screen, insert, append the stored row *)

\* What the user can have typed into the name field of an assignee form.
NameInputs == {<<" ">>, <<"s">>, <<" ", "w">>}

\* `if (x.trim() === "") return' (page.tsx:323, 369, 414, 508, 550)
RejectEmpty == UNCHANGED <<isLoading, error, inflight>>

\* A finally block that leaves the loading screen up.
FinallyStillLoading(i) ==
  /\ UNCHANGED isLoading
  /\ inflight' = Remove(inflight, i)

\* the finally block of an add handler: setIsLoading(false)
Finally(i) ==
  /\ isLoading' = FALSE
  /\ inflight' = Remove(inflight, i)

\* handleAddChore up to its await (page.tsx:322-329); newChoreCategoryId is
\* undefined or the category selected in the form (page.tsx:1009-1025).
handleAddChore(newChoreTitle, newChoreCategoryId) ==
  /\ Interactive
  /\ UserEvent
  /\ newChoreCategoryId \in Ids(categories) \cup {NULL}
  /\ IF Trim(newChoreTitle) = <<>>
     THEN RejectEmpty
     ELSE /\ isLoading' = TRUE
          /\ error' = NoError
          /\ Suspend(Handler("handleAddChore", NULL, newChoreCategoryId,
                             newChoreTitle))
  /\ UNCHANGED <<session, store, remote, resolved, screen, identity, console, other>>

\* .from("chores").insert({...}).select().single(): the stored row
InsertedChore(title, categoryId, household) ==
  ChoreRow(nextId.chore, title, FALSE, household, <<>>, categoryId)

\* the suspended handler waits for the insert of a chore
AtChoreInsert(i) ==
  /\ i \in 1..Len(inflight)
  /\ inflight[i].op \in {"handleAddChore", "handleAddChoreInCategory"}

\* handleAddChore and handleAddChoreInCategory, the insert succeeds
\* (page.tsx:331-357, 363-365; 377-402, 408-410)
AddChoreDone(i) ==
  LET h == inflight[i]
      data == InsertedChore(Trim(h.text), h.arg, h.householdId)
  IN /\ AtChoreInsert(i)
     /\ ForeignKeyOk(h.arg)
     /\ dbChores' = Append(dbChores, data)
     /\ nextId' = [nextId EXCEPT !.chore = @ + 1]
     /\ chores' = h.chores \o <<choreForState(data)>>
     /\ Finally(i)
     /\ UNCHANGED <<session, assignees, categories, error, dbAssignees,
                    dbCategories, resolved, screen, identity, console, other, ops>>

\* handleAddChore and handleAddChoreInCategory, the insert fails
\* (page.tsx:343, 358-365; 389, 403-410)
AddChoreFailed(i, err) ==
  /\ AtChoreInsert(i)
  /\ Catch(err, "Failed to add chore. Please try again.")
  /\ Finally(i)
  /\ UNCHANGED <<session, store, remote, resolved, screen, identity, console, other, ops>>

\* handleAddChoreInCategory up to its await (page.tsx:368-375); the form is
\* part of an open category (page.tsx:1525, 1552).
handleAddChoreInCategory(categoryId, newChoreTitleInCategory) ==
  /\ Interactive
  /\ UserEvent
  /\ categoryId \in Ids(categories)
  /\ Find(categories, categoryId).isOpen
  /\ IF Trim(newChoreTitleInCategory) = <<>>
     THEN RejectEmpty
     ELSE /\ isLoading' = TRUE
          /\ error' = NoError
          /\ Suspend(Handler("handleAddChoreInCategory", NULL, categoryId,
                             newChoreTitleInCategory))
  /\ UNCHANGED <<session, store, remote, resolved, screen, identity, console, other>>

\* A nameExists that compares the names as they are written.
nameExistsExactly(name) ==
  \E k \in 1..Len(assignees) : assignees[k].name = Trim(name)

\* nameExists (page.tsx:416-420, 510-513)
nameExists(name) ==
  \E k \in 1..Len(assignees) :
    ToLowerCase(assignees[k].name) = ToLowerCase(Trim(name))

\* A rejection of a duplicate name that says nothing.
RejectDuplicateSilently == UNCHANGED <<isLoading, error, inflight>>

\* `if (nameExists) { setError(...); return; }' (page.tsx:421-424, 514-517)
RejectDuplicate ==
  /\ error' = "An assignee with this name already exists."
  /\ UNCHANGED <<isLoading, inflight>>

\* handleAddAssignee up to its await (page.tsx:507-523)
handleAddAssignee(newAssigneeName) ==
  /\ Interactive
  /\ UserEvent
  /\ IF Trim(newAssigneeName) = <<>>
     THEN RejectEmpty
     ELSE IF nameExists(newAssigneeName)
     THEN RejectDuplicate
     ELSE /\ isLoading' = TRUE
          /\ error' = NoError
          /\ Suspend(Handler("handleAddAssignee", NULL, NULL, newAssigneeName))
  /\ UNCHANGED <<session, store, remote, resolved, screen, identity, console, other>>

\* .from("assignees").insert({...}).select().single(): the stored row
InsertedAssignee(name, household) ==
  AssigneeRow(nextId.assignee, name, household)

\* handleAddAssignee from its insert on (page.tsx:525-546)
AddAssigneeSettles(i) ==
  LET h == inflight[i]
      data == InsertedAssignee(Trim(h.text), h.householdId)
  IN /\ i \in Waiting("handleAddAssignee", 1)
     /\ \/ /\ dbAssignees' = Append(dbAssignees, data)
           /\ nextId' = [nextId EXCEPT !.assignee = @ + 1]
           /\ assignees' = Append(h.assignees, data)
           /\ UNCHANGED error
        \/ \E err \in RemoteErrors :
             /\ Catch(err, "Failed to add assignee. Please try again.")
             /\ UNCHANGED <<assignees, dbAssignees, nextId>>
     /\ Finally(i)
     /\ UNCHANGED <<session, categories, chores, dbCategories, dbChores,
                    resolved, screen, identity, console, other, ops>>

\* handleQuickAddAssignee up to its await (page.tsx:413-430)
handleQuickAddAssignee(choreId, newAssigneeNameInChore) ==
  /\ Interactive
  /\ UserEvent
  /\ choreId \in RenderedChores
  /\ IF Trim(newAssigneeNameInChore) = <<>>
     THEN RejectEmpty
     ELSE IF nameExists(newAssigneeNameInChore)
     THEN RejectDuplicate
     ELSE /\ isLoading' = TRUE
          /\ error' = NoError
          /\ Suspend(Handler("handleQuickAddAssignee", choreId, NULL,
                             newAssigneeNameInChore))
  /\ UNCHANGED <<session, store, remote, resolved, screen, identity, console, other>>

\* handleQuickAddAssignee, the insert of the assignee (page.tsx:432-447,
\* 463-472)
QuickAddInsertsAssignee(i) ==
  LET h == inflight[i]
      newAssignee == InsertedAssignee(Trim(h.text), h.householdId)
  IN /\ i \in Waiting("handleQuickAddAssignee", 1)
     /\ \/ /\ dbAssignees' = Append(dbAssignees, newAssignee)
           /\ nextId' = [nextId EXCEPT !.assignee = @ + 1]
           /\ assignees' = Append(h.assignees, newAssignee)
           /\ IF Has(h.chores, h.id)
              THEN /\ inflight' = Advance(i, 2, newAssignee)
                   /\ UNCHANGED isLoading
              ELSE Finally(i)
           /\ UNCHANGED error
        \/ \E err \in RemoteErrors :
             /\ Catch(err, "Failed to add assignee. Please try again.")
             /\ Finally(i)
             /\ UNCHANGED <<assignees, dbAssignees, nextId>>
     /\ UNCHANGED <<session, categories, chores, dbCategories, dbChores,
                    resolved, screen, identity, console, other, ops>>

\* handleQuickAddAssignee, the update of the chore (page.tsx:445-472)
QuickAddUpdatesChore(i) ==
  LET h == inflight[i]
      chore == Find(h.chores, h.id)
      newAssigneeIds == Append(chore.assigneeIds, h.data.id)
  IN /\ i \in Waiting("handleQuickAddAssignee", 2)
     /\ \/ /\ dbChores' = UpdateAssigneeIds(dbChores, h.id, newAssigneeIds)
           /\ chores' = SetAssigneeIds(h.chores, h.id, newAssigneeIds)
           /\ UNCHANGED error
        \/ \E err \in RemoteErrors :
             /\ Catch(err, "Failed to add assignee. Please try again.")
             /\ UNCHANGED <<chores, dbChores>>
     /\ Finally(i)
     /\ UNCHANGED <<session, assignees, categories, dbAssignees,
                    dbCategories, nextId, resolved, screen, identity, console, other, ops>>

\* handleAddCategory up to its await (page.tsx:549-556)
handleAddCategory(newCategoryName) ==
  /\ Interactive
  /\ UserEvent
  /\ IF Trim(newCategoryName) = <<>>
     THEN RejectEmpty
     ELSE /\ isLoading' = TRUE
          /\ error' = NoError
          /\ Suspend(Handler("handleAddCategory", NULL, NULL, newCategoryName))
  /\ UNCHANGED <<session, store, remote, resolved, screen, identity, console, other>>

\* .from("categories").insert({...}).select().single(): the stored row
InsertedCategory(name, household) ==
  CategoryRow(nextId.category, name, household, <<>>)

\* handleAddCategory from its insert on (page.tsx:558-588)
AddCategorySettles(i) ==
  LET h == inflight[i]
      data == InsertedCategory(Trim(h.text), h.householdId)
  IN /\ i \in Waiting("handleAddCategory", 1)
     /\ \/ /\ dbCategories' = Append(dbCategories, data)
           /\ nextId' = [nextId EXCEPT !.category = @ + 1]
           /\ categories' = Append(h.categories, categoryForState(data))
           /\ UNCHANGED error
        \/ \E err \in RemoteErrors :
             /\ Catch(err, "Failed to add category. Please try again.")
             /\ UNCHANGED <<categories, dbCategories, nextId>>
     /\ Finally(i)
     /\ UNCHANGED <<session, assignees, chores, dbAssignees, dbChores,
                    resolved, screen, identity, console, other, ops>>

-----------------------------------------------------------------------------
(* The application *)

Next ==
  \/ Mount
  \/ \E name \in LoginNames, code \in JoinCodes : handleJoinHousehold(name, code)
  \/ \E i \in 1..Len(inflight) : JoinFindsHousehold(i)
  \/ \E i \in 1..Len(inflight) : JoinCreatesHousehold(i)
  \/ \E i \in 1..Len(inflight) : JoinCreatesProfile(i)
  \/ \E i \in 1..Len(inflight), err \in JoinErrors : JoinFailed(i, err)
  \/ \E confirmed \in BOOLEAN : handleSignOut(confirmed)
  \/ \E i \in 1..Len(inflight) : LoadAssignees(i)
  \/ \E i \in 1..Len(inflight) : LoadCreateAssignee(i)
  \/ \E i \in 1..Len(inflight) : LoadCategories(i)
  \/ \E i \in 1..Len(inflight) : LoadChores(i)
  \/ \E c \in Ids(chores) : handleToggleChore(c)
  \/ \E i \in 1..Len(inflight) : ToggleChoreDone(i)
  \/ \E i \in 1..Len(inflight), err \in RemoteErrors : ToggleChoreFailed(i, err)
  \/ \E c \in Ids(chores), a \in Ids(assignees) : handleToggleAssignee(c, a)
  \/ \E i \in 1..Len(inflight) : ToggleAssigneeDone(i)
  \/ \E i \in 1..Len(inflight), err \in RemoteErrors : ToggleAssigneeFailed(i, err)
  \/ \E g \in Ids(categories), a \in Ids(assignees) :
       handleToggleCategoryAssignee(g, a)
  \/ \E i \in 1..Len(inflight) : ToggleCategoryAssigneeDone(i)
  \/ \E i \in 1..Len(inflight), err \in RemoteErrors :
       ToggleCategoryAssigneeFailed(i, err)
  \/ \E g \in Ids(categories) : handleToggleCategory(g)
  \/ DismissError
  \/ \E c \in Ids(chores) : handleDeleteChore(c)
  \/ \E i \in 1..Len(inflight) : DeleteChoreDone(i)
  \/ \E i \in 1..Len(inflight), err \in RemoteErrors : DeleteChoreFailed(i, err)
  \/ \E g \in Ids(categories) : handleDeleteCategory(g)
  \/ \E i \in 1..Len(inflight) : DeleteCategoryClearsChores(i)
  \/ \E i \in 1..Len(inflight) : DeleteCategoryDone(i)
  \/ \E i \in 1..Len(inflight), err \in RemoteErrors : DeleteCategoryFailed(i, err)
  \/ \E c \in Ids(chores), g \in Ids(categories) \cup {NULL} :
       handleMoveChoreToCategory(c, g)
  \/ \E i \in 1..Len(inflight) : MoveChoreDone(i)
  \/ \E i \in 1..Len(inflight), err \in RemoteErrors : MoveChoreFailed(i, err)
  \/ \E a \in Ids(assignees) : handleDeleteAssignee(a)
  \/ \E i \in 1..Len(inflight) : DeleteAssigneeUpdatesChore(i)
  \/ \E i \in 1..Len(inflight) : DeleteAssigneeChoreUpdateFailed(i)
  \/ \E i \in 1..Len(inflight) : DeleteAssigneeUpdatesCategory(i)
  \/ \E i \in 1..Len(inflight) : DeleteAssigneeCategoryUpdateFailed(i)
  \/ \E i \in 1..Len(inflight) : DeleteAssigneeDone(i)
  \/ \E i \in 1..Len(inflight), err \in RemoteErrors : DeleteAssigneeFailed(i, err)
  \/ \E t \in TextInputs, g \in Ids(categories) \cup {NULL} : handleAddChore(t, g)
  \/ \E t \in TextInputs, g \in Ids(categories) : handleAddChoreInCategory(g, t)
  \/ \E i \in 1..Len(inflight) : AddChoreDone(i)
  \/ \E i \in 1..Len(inflight), err \in RemoteErrors : AddChoreFailed(i, err)
  \/ \E n \in NameInputs : handleAddAssignee(n)
  \/ \E i \in 1..Len(inflight) : AddAssigneeSettles(i)
  \/ \E c \in Ids(chores), n \in NameInputs : handleQuickAddAssignee(c, n)
  \/ \E i \in 1..Len(inflight) : QuickAddInsertsAssignee(i)
  \/ \E i \in 1..Len(inflight) : QuickAddUpdatesChore(i)
  \/ \E t \in TextInputs : handleAddCategory(t)
  \/ \E i \in 1..Len(inflight) : AddCategorySettles(i)

Spec == Init /\ [][Next]_vars

-----------------------------------------------------------------------------
(* The Assignment Resolver on its own: every chore and category list of a  *)
(* bounded store, resolved by a render.                                    *)

\* the assignees and the categories of the stores the resolver is tried on
ResolverAssignees == 2
ResolverCategories == 2

\* the lists of distinct assignee ids
AssigneeIdLists ==
  {ids \in UNION {[1..n -> 1..ResolverAssignees] : n \in 0..ResolverAssignees} :
     \A p, q \in 1..Len(ids) : p # q => ids[p] # ids[q]}

RECURSIVE Ascending(_)
Ascending(S) ==
  IF S = {} THEN <<>>
  ELSE LET m == CHOOSE x \in S : \A y \in S : x <= y
       IN <<m>> \o Ascending(S \ {m})

\* the category rows with the ids `present' and the default assignees `defaults'
ResolverCategoryRows(present, defaults) ==
  LET ids == Ascending(present)
  IN [k \in 1..Len(ids) |-> CategoryRow(ids[k], <<"k">>, HOME, defaults[ids[k]])]

\* A session that has loaded a household; the chore in its store may name a
\* category the store no longer holds.
ResolverInit ==
  /\ isAuthenticated = TRUE
  /\ userId = 1
  /\ userName = <<"a">>
  /\ householdId = HOME
  /\ isLoading = FALSE
  /\ error = NoError
  /\ inflight = <<>>
  /\ resolved = <<>>
  /\ ops = 0
  /\ isMounted = TRUE
  /\ localStorage = [userId |-> 1, userName |-> <<"a">>, householdId |-> HOME]
  /\ loginError = NoError
  /\ console = {}
  /\ dbHouseholds = <<HouseholdRow(HOME)>>
  /\ dbProfiles = <<ProfileRow(1, <<"a">>, HOME)>>
  /\ other = OtherIdle
  /\ dbAssignees = [k \in 1..ResolverAssignees |-> AssigneeRow(k, <<"a", "a">>, HOME)]
  /\ assignees = dbAssignees
  /\ \E present \in SUBSET (1..ResolverCategories),
        defaults \in [1..ResolverCategories -> AssigneeIdLists],
        direct \in AssigneeIdLists,
        categoryId \in 0..ResolverCategories :
       /\ dbCategories = ResolverCategoryRows(present, defaults)
       /\ categories = MapCategories(dbCategories)
       /\ chores = <<[id |-> 1, title |-> <<"w">>, completed |-> FALSE,
                      household_id |-> HOME, assigneeIds |-> direct,
                      categoryId |-> categoryId]>>
       /\ dbChores = <<ChoreRow(1, <<"w">>, FALSE, HOME, direct,
                                IF categoryId \in present THEN categoryId ELSE NULL)>>
       /\ nextId = [assignee |-> ResolverAssignees + 1,
                    category |-> ResolverCategories + 1, chore |-> 2,
                    profile |-> 2]

\* A render resolves the assignees of the chores it lists
\* (page.tsx:1596-1600).
Render ==
  /\ resolved' = [k \in 1..Len(chores) |-> getEffectiveAssignees(chores[k])]
  /\ UNCHANGED <<session, store, isLoading, error, remote, inflight, ops,
                 screen, identity, console, other>>

ResolverNext == Render

SpecResolver == ResolverInit /\ [][ResolverNext]_vars

\* C1: a chore with direct assignees resolves to exactly that list, not
\* inherited, whatever its category and the category's defaults are.
C1_DirectAssigneesWin ==
  \A k \in 1..Len(resolved) :
    Len(chores[k].assigneeIds) > 0 =>
      /\ resolved[k].assigneeIds = chores[k].assigneeIds
      /\ resolved[k].isInherited = FALSE

\* a resolved chore with direct assignees under a category whose defaults differ
C1_Witness ==
  \E k \in 1..Len(resolved) :
    /\ Len(chores[k].assigneeIds) > 0
    /\ chores[k].categoryId # NULL
    /\ Has(categories, chores[k].categoryId)
    /\ Len(Find(categories, chores[k].categoryId).assigneeIds) > 0
    /\ Find(categories, chores[k].categoryId).assigneeIds # chores[k].assigneeIds

\* C2: a chore without direct assignees whose categoryId names a category of
\* the store with default assignees resolves to those defaults, inherited.
C2_InheritsCategoryDefaults ==
  \A k \in 1..Len(resolved) :
    ( /\ Len(chores[k].assigneeIds) = 0
      /\ chores[k].categoryId # NULL
      /\ Has(categories, chores[k].categoryId)
      /\ Len(Find(categories, chores[k].categoryId).assigneeIds) > 0 ) =>
      /\ resolved[k].assigneeIds = Find(categories, chores[k].categoryId).assigneeIds
      /\ resolved[k].isInherited = TRUE

\* a resolved chore without direct assignees under a category with defaults
C2_Witness ==
  \E k \in 1..Len(resolved) :
    /\ Len(chores[k].assigneeIds) = 0
    /\ chores[k].categoryId # NULL
    /\ Has(categories, chores[k].categoryId)
    /\ Len(Find(categories, chores[k].categoryId).assigneeIds) = 2

-----------------------------------------------------------------------------
(* Failures of the remote calls *)

\* handler i's remote call of a delete or move handler fails with err
DeleteOrMoveFailed(i, err) ==
  \/ DeleteChoreFailed(i, err)
  \/ DeleteCategoryFailed(i, err)
  \/ MoveChoreFailed(i, err)
  \/ DeleteAssigneeFailed(i, err)

\* the banner shows a message (page.tsx:827)
ErrorShown(e) == e # NoError /\ e # ""

C5_FailedToggleRestoresField ==
  [][\A i \in 1..Len(inflight), err \in RemoteErrors :
       /\ ToggleChoreFailed(i, err) =>
            /\ Has(chores', inflight[i].id)
            /\ Find(chores', inflight[i].id).completed
                 = Find(inflight[i].chores, inflight[i].id).completed
            /\ ErrorShown(error')
       /\ ToggleAssigneeFailed(i, err) =>
            /\ Has(chores', inflight[i].id)
            /\ Find(chores', inflight[i].id).assigneeIds
                 = Find(inflight[i].chores, inflight[i].id).assigneeIds
            /\ ErrorShown(error')
       /\ ToggleCategoryAssigneeFailed(i, err) =>
            /\ Has(categories', inflight[i].id)
            /\ Find(categories', inflight[i].id).assigneeIds
                 = Find(inflight[i].categories, inflight[i].id).assigneeIds
            /\ ErrorShown(error')]_vars

\* a toggle of a chore's completion has failed with an empty message: the
\* fallback is shown and the chore is as the remote row has it
C5_Witness ==
  /\ error = "Failed to update chore. Please try again."
  /\ inflight = <<>>
  /\ \E k \in 1..Len(chores) :
       /\ Has(dbChores, chores[k].id)
       /\ Find(dbChores, chores[k].id).completed = chores[k].completed

\* C6: in handleDeleteAssignee, whichever remote step fails (an update of a
\* chore, an update of a category, the delete of the assignee), an error is
\* shown.
C6_FailedStepShowsError ==
  [][\A i \in 1..Len(inflight) :
       /\ DeleteAssigneeChoreUpdateFailed(i) => ErrorShown(error')
       /\ DeleteAssigneeCategoryUpdateFailed(i) => ErrorShown(error')
       /\ \A err \in RemoteErrors :
            DeleteAssigneeFailed(i, err) => ErrorShown(error')]_vars

-----------------------------------------------------------------------------
(* Deletes that other rows refer to *)

\* some row of xs lists assigneeId
Lists(xs, assigneeId) ==
  \E k \in 1..Len(xs) : Includes(xs[k].assigneeIds, assigneeId)

\* some remote row of the household lists assigneeId
RemoteLists(rows, household, assigneeId) ==
  \E k \in 1..Len(rows) :
    /\ rows[k].household_id = household
    /\ Includes(rows[k].assignee_ids, assigneeId)

\* C7: when handleDeleteAssignee(a) completes and every one of its remote
\* steps has succeeded, no chore and no category lists a, in the store and
\* in the remote rows of the household, and a is an assignee in neither.
C7_DeletedAssigneeIsUnlisted ==
  [][\A i \in 1..Len(inflight) :
       (DeleteAssigneeDone(i) /\ "error" \notin Range(inflight[i].data)) =>
         LET a == inflight[i].id
         IN /\ ~Lists(chores', a)
            /\ ~Lists(categories', a)
            /\ ~RemoteLists(dbChores', inflight[i].householdId, a)
            /\ ~RemoteLists(dbCategories', inflight[i].householdId, a)
            /\ a \notin Ids(assignees')
            /\ a \notin Ids(dbAssignees')]_vars

\* C8: handleDeleteCategory(c) deletes no chore, uncategorizes the chores of
\* c and leaves the category of the other chores; when its remote calls
\* have succeeded, no chore of the store and no remote chore refers to c.
C8_DeletedCategoryUncategorizes ==
  [][/\ \A c \in Ids(categories) :
          handleDeleteCategory(c) =>
            /\ Len(chores') = Len(chores)
            /\ \A k \in 1..Len(chores) :
                 /\ chores'[k].id = chores[k].id
                 /\ chores'[k].categoryId
                      = IF chores[k].categoryId = c THEN NULL
                        ELSE chores[k].categoryId
     /\ \A i \in 1..Len(inflight) :
          DeleteCategoryDone(i) =>
            /\ \A k \in 1..Len(chores') :
                 chores'[k].categoryId # inflight[i].id
            /\ \A k \in 1..Len(dbChores') :
                 dbChores'[k].category_id # inflight[i].id
            /\ \A k \in 1..Len(inflight[i].chores) :
                 Has(dbChores, inflight[i].chores[k].id)
                   => Has(dbChores', inflight[i].chores[k].id)]_vars

-----------------------------------------------------------------------------
(* Creation and reload; inheritance along a chore's life *)

\* n spaces
Spaces(n) == [k \in 1..n |-> " "]

\* title is text without its leading and trailing spaces
IsTrimOf(title, text) ==
  /\ title # <<>>
  /\ Head(title) # " "
  /\ title[Len(title)] # " "
  /\ \E a, b \in 0..Len(text) : text = Spaces(a) \o title \o Spaces(b)

\* what loadDataFromSupabase would store as the chores of a household
\* (page.tsx:271-286)
Reloaded(rows, household) == MapChores(SelectByHousehold(rows, household))

\* C9: when handleAddChore has created a chore, the chore appended to the
\* store has the trimmed title, completed = false, no assignees and, when
\* no category was selected, categoryId = null; and a reload of the
\* household's chores yields that same chore.
C9_CreatedChoreRoundTrips ==
  [][\A i \in 1..Len(inflight) :
       (AddChoreDone(i) /\ inflight[i].op = "handleAddChore") =>
         LET h == inflight[i]
             created == chores'[Len(chores')]
             reloaded == Reloaded(dbChores', h.householdId)
         IN /\ IsTrimOf(created.title, h.text)
            /\ created.completed = FALSE
            /\ created.assigneeIds = <<>>
            /\ created.categoryId = h.arg
            /\ Has(reloaded, created.id)
            /\ Find(reloaded, created.id) = created]_vars

\* a chore typed as " w " with no category is in the store as "w", and the
\* household's remote rows hold it
C9_Witness ==
  /\ inflight = <<>>
  /\ ~isLoading
  /\ \E k \in 1..Len(chores) :
       /\ chores[k].title = <<"w">>
       /\ chores[k].categoryId = NULL
       /\ Has(Reloaded(dbChores, householdId), chores[k].id)

\* the category of a chore has default assignees in cats
HasDefaults(chore, cats) ==
  /\ chore.categoryId # NULL
  /\ Has(cats, chore.categoryId)
  /\ Find(cats, chore.categoryId).assigneeIds # <<>>

\* what a chore inherits from its category in cats
Inherits(chore, cats) ==
  [assigneeIds |-> Find(cats, chore.categoryId).assigneeIds,
   isInherited |-> TRUE]

\* C10: a chore created under a category with default assignees resolves to
\* those defaults, inherited; once handleToggleAssignee has assigned it an
\* assignee directly it resolves to exactly that assignee, not inherited;
\* once handleToggleAssignee has removed its last direct assignee it
\* resolves to the category's defaults, inherited, again.
C10_InheritanceFollowsDirectAssignment ==
  [][/\ \A i \in 1..Len(inflight) :
          (AddChoreDone(i) /\ inflight[i].op = "handleAddChoreInCategory") =>
            LET created == chores'[Len(chores')]
            IN /\ created.categoryId = inflight[i].arg
               /\ created.assigneeIds = <<>>
               /\ HasDefaults(created, categories') =>
                    getEffectiveAssigneesIn(created, categories')
                      = Inherits(created, categories')
     /\ \A c \in Ids(chores), a \in Ids(assignees) :
          handleToggleAssignee(c, a) =>
            LET before == Find(chores, c)
                after == Find(chores', c)
                effective == getEffectiveAssigneesIn(after, categories')
            IN /\ before.assigneeIds = <<>> =>
                    effective = [assigneeIds |-> <<a>>, isInherited |-> FALSE]
               /\ (before.assigneeIds = <<a>> /\ HasDefaults(before, categories)) =>
                    effective = Inherits(before, categories)]_vars

\* the last direct assignee of a chore has just been toggled off, and the
\* chore shows the defaults of its category again
C10_Witness ==
  \E i \in 1..Len(inflight) :
    /\ inflight[i].op = "handleToggleAssignee"
    /\ Has(chores, inflight[i].id)
    /\ Find(inflight[i].chores, inflight[i].id).assigneeIds = <<inflight[i].arg>>
    /\ Find(chores, inflight[i].id).assigneeIds = <<>>
    /\ HasDefaults(Find(chores, inflight[i].id), categories)
    /\ getEffectiveAssignees(Find(chores, inflight[i].id)).isInherited

-----------------------------------------------------------------------------
(* Validation before the remote call *)

\* the text is empty or only white space
Blank(text) == \A k \in 1..Len(text) : text[k] = " "

\* an assignee of the store has this name, whatever the case of its letters
NameTaken(text) ==
  \E k \in 1..Len(assignees) :
    /\ Len(assignees[k].name) = Len(Trim(text))
    /\ \A j \in 1..Len(Trim(text)) :
         LowerChar(assignees[k].name[j]) = LowerChar(Trim(text)[j])

\* no request is issued and no row changes, in the store or remotely
NothingIssued ==
  /\ inflight' = inflight
  /\ UNCHANGED <<assignees, categories, chores>>
  /\ UNCHANGED <<dbAssignees, dbCategories, dbChores>>

\* C11: handleAddChore, handleAddChoreInCategory, handleAddCategory,
\* handleAddAssignee and handleQuickAddAssignee, given an empty or
\* white-space input, issue no remote request and leave assignees,
\* categories and chores as they are; handleAddAssignee and
\* handleQuickAddAssignee issue no request either when the trimmed name is,
\* case-insensitively, the name of an assignee of the store.
C11_ValidationBeforeRemoteCall ==
  [][/\ \A t \in TextInputs :
          Blank(t) =>
            /\ \A g \in Ids(categories) \cup {NULL} :
                 handleAddChore(t, g) => NothingIssued
            /\ \A g \in Ids(categories) :
                 handleAddChoreInCategory(g, t) => NothingIssued
            /\ handleAddCategory(t) => NothingIssued
     /\ \A n \in NameInputs :
          (Blank(n) \/ NameTaken(n)) =>
            /\ handleAddAssignee(n) => NothingIssued
            /\ \A c \in Ids(chores) :
                 handleQuickAddAssignee(c, n) => NothingIssued]_vars

\* the user has submitted forms in front of a loaded household whose
\* assignees include "S", and nothing is in flight and no row was added:
\* the forms were rejected
C11_Witness ==
  /\ Interactive
  /\ ops >= 2
  /\ inflight = <<>>
  /\ NameTaken(<<"s">>)
  /\ Len(dbAssignees) = 2 /\ Len(dbChores) = 1 /\ Len(dbCategories) = 1
  /\ Len(assignees) = 2 /\ Len(chores) = 1 /\ Len(categories) = 1
  /\ error = "An assignee with this name already exists."

\* C12, as claimed: rejecting a duplicate name in handleAddAssignee or
\* handleQuickAddAssignee leaves the error state unchanged.
C12_DuplicateLeavesErrorUnchanged ==
  [][\A n \in NameInputs :
       (~Blank(n) /\ NameTaken(n)) =>
         /\ handleAddAssignee(n) => UNCHANGED error
         /\ \A c \in Ids(chores) :
              handleQuickAddAssignee(c, n) => UNCHANGED error]_vars

\* C12, amended: rejecting an empty name leaves the error state unchanged;
\* rejecting a duplicate name in handleAddAssignee or
\* handleQuickAddAssignee sets the error state, shown in the banner, to
\* "An assignee with this name already exists."
C12_DuplicateIsReportedInBanner ==
  [][\A n \in NameInputs :
       /\ Blank(n) =>
            /\ handleAddAssignee(n) => UNCHANGED error
            /\ \A c \in Ids(chores) :
                 handleQuickAddAssignee(c, n) => UNCHANGED error
       /\ (~Blank(n) /\ NameTaken(n)) =>
            /\ handleAddAssignee(n) =>
                 error' = "An assignee with this name already exists."
            /\ \A c \in Ids(chores) :
                 handleQuickAddAssignee(c, n) =>
                   error' = "An assignee with this name already exists."]_vars

\* the banner shows the rejection of a duplicate name, and no handler is
\* suspended
C12_Witness ==
  /\ error = "An assignee with this name already exists."
  /\ inflight = <<>>
  /\ ~isLoading
  /\ NameTaken(<<"s">>)

-----------------------------------------------------------------------------
(* The user's own assignee *)

\* two names are equal but for the case of their letters
SameName(a, b) ==
  /\ Len(a) = Len(b)
  /\ \A j \in 1..Len(a) : LowerChar(a[j]) = LowerChar(b[j])

\* some row of rows bears the name, whatever the case of its letters
Named(rows, name) == \E k \in 1..Len(rows) : SameName(rows[k].name, name)

\* C13: when the load has read the household's assignees and none bears the
\* session's display name (case-insensitively), it issues one insert, which
\* adds one row with that name and household to the remote assignees and
\* makes the store's assignees the loaded list followed by that row; when
\* one does, no insert is issued and the store's assignees are the loaded
\* list.
C13_LoadCreatesOwnAssigneeOnce ==
  [][\A i \in 1..Len(inflight) :
       LET h == inflight[i]
           loaded == SelectByHousehold(dbAssignees, h.householdId)
       IN /\ (LoadAssignees(i) /\ Len(inflight') = Len(inflight)) =>
               /\ dbAssignees' = dbAssignees
               /\ IF Named(loaded, h.userName)
                  THEN /\ assignees' = loaded
                       /\ inflight'[Len(inflight')].step = 3
                  ELSE /\ inflight'[Len(inflight')].step = 2
                       /\ inflight'[Len(inflight')].data = loaded
          /\ LoadCreateAssigneeDone(i) =>
               /\ Len(dbAssignees') = Len(dbAssignees) + 1
               /\ SubSeq(dbAssignees', 1, Len(dbAssignees)) = dbAssignees
               /\ dbAssignees'[Len(dbAssignees')].name = h.userName
               /\ dbAssignees'[Len(dbAssignees')].household_id = h.householdId
               /\ assignees' = h.data \o <<dbAssignees'[Len(dbAssignees')]>>
               /\ inflight'[Len(inflight')].step = 3]_vars

\* a load of a household nobody had used has completed, and the store and
\* the remote table hold one assignee, named as the session
C13_Witness ==
  /\ Interactive
  /\ inflight = <<>>
  /\ error = NoError
  /\ Len(assignees) = 1
  /\ assignees[1].name = userName
  /\ assignees = SelectByHousehold(dbAssignees, householdId)

-----------------------------------------------------------------------------
(* Two browser sessions in front of the same tables: this one, and `other', *)
(* which runs the same join and the same load.  Of the other session only  *)
(* what it reads from and writes to the tables is kept.                    *)

\* The display names and household codes the other session joins with.
OtherNames == {<<"s">>, <<"A">>}
OtherCodes == {<<"h">>, <<"g">>}

\* The other session joins (supabaseClient.ts:31-91), while no join of this
\* session is under way: its household is created if it is not there, its
\* profile is inserted, and its load effect starts (page.tsx:215-221).
OtherJoins(name, typedCode) ==
  LET code == normalizedCode(ToUpperCase(typedCode))
  IN /\ other.step = "login"
     /\ ~LoginLoading
     /\ dbHouseholds' = IF Has(dbHouseholds, code) THEN dbHouseholds
                        ELSE Append(dbHouseholds, HouseholdRow(code))
     /\ dbProfiles' = Append(dbProfiles, ProfileRow(nextId.profile, Trim(name), code))
     /\ nextId' = [nextId EXCEPT !.profile = @ + 1]
     /\ other' = [other EXCEPT !.step = "assignees", !.userName = Trim(name),
                               !.householdId = code]
     /\ UNCHANGED <<session, store, isLoading, error, screen, console,
                    dbAssignees, dbCategories, dbChores, inflight, resolved, ops>>

\* the other session's load fails at a query (page.tsx:287-295)
OtherLoadFailed ==
  other' = [other EXCEPT !.step = "done",
                         !.console = @ \cup {"Failed to load data from Supabase:"}]

\* the other session's assignees query (page.tsx:225-253)
OtherLoadAssignees ==
  LET assigneesData == SelectByHousehold(dbAssignees, other.householdId)
  IN /\ other.step = "assignees"
     /\ \/ OtherLoadFailed
        \/ IF ~userExists(assigneesData, other.userName) /\ other.userName # NoString
           THEN other' = [other EXCEPT !.step = "create", !.data = assigneesData]
           ELSE other' = [other EXCEPT !.step = "categories",
                                       !.assignees = assigneesData]
     /\ UNCHANGED <<session, store, isLoading, error, screen, console, remote,
                    identity, inflight, resolved, ops>>

\* the other session's insert of its own assignee succeeds (page.tsx:236-248)
OtherLoadCreateAssigneeDone ==
  LET newAssignee == AssigneeRow(nextId.assignee, other.userName, other.householdId)
  IN /\ other.step = "create"
     /\ dbAssignees' = Append(dbAssignees, newAssignee)
     /\ nextId' = [nextId EXCEPT !.assignee = @ + 1]
     /\ other' = [other EXCEPT !.step = "categories", !.data = <<>>,
                               !.assignees = other.data \o <<newAssignee>>]
     /\ UNCHANGED <<session, store, isLoading, error, screen, console,
                    dbCategories, dbChores, identity, inflight, resolved, ops>>

\* the other session's insert of its own assignee fails (page.tsx:245-246)
OtherLoadCreateAssigneeFailed ==
  /\ other.step = "create"
  /\ other' = [other EXCEPT !.step = "categories", !.data = <<>>,
                            !.console = @ \cup {"Failed to auto-create assignee:"}]
  /\ UNCHANGED <<session, store, isLoading, error, screen, console, remote,
                 identity, inflight, resolved, ops>>

\* the other session's categories query (page.tsx:255-269)
OtherLoadCategories ==
  /\ other.step = "categories"
  /\ \/ OtherLoadFailed
     \/ other' = [other EXCEPT !.step = "chores"]
  /\ UNCHANGED <<session, store, isLoading, error, screen, console, remote,
                 identity, inflight, resolved, ops>>

\* the other session's chores query (page.tsx:271-295)
OtherLoadChores ==
  /\ other.step = "chores"
  /\ \/ OtherLoadFailed
     \/ other' = [other EXCEPT !.step = "done"]
  /\ UNCHANGED <<session, store, isLoading, error, screen, console, remote,
                 identity, inflight, resolved, ops>>

\* Both sessions start in front of tables nobody has used.
TwoSessionsInit ==
  /\ Init
  /\ dbHouseholds = <<>>

TwoSessionsNext ==
  \/ Mount
  \/ \E name \in LoginNames, code \in JoinCodes : handleJoinHousehold(name, code)
  \/ \E i \in 1..Len(inflight) : JoinFindsHousehold(i)
  \/ \E i \in 1..Len(inflight) : JoinCreatesHousehold(i)
  \/ \E i \in 1..Len(inflight) : JoinCreatesProfile(i)
  \/ \E i \in 1..Len(inflight), err \in JoinErrors : JoinFailed(i, err)
  \/ \E i \in 1..Len(inflight) : LoadAssignees(i)
  \/ \E i \in 1..Len(inflight) : LoadCreateAssignee(i)
  \/ \E i \in 1..Len(inflight) : LoadCategories(i)
  \/ \E i \in 1..Len(inflight) : LoadChores(i)
  \/ \E name \in OtherNames, code \in OtherCodes : OtherJoins(name, code)
  \/ OtherLoadAssignees
  \/ OtherLoadCreateAssigneeDone
  \/ OtherLoadCreateAssigneeFailed
  \/ OtherLoadCategories
  \/ OtherLoadChores

SpecTwoSessions == TwoSessionsInit /\ [][TwoSessionsNext]_vars

\* this session's load has completed and none of its calls has failed
LoadedWell ==
  /\ Interactive
  /\ \A i \in 1..Len(inflight) : inflight[i].op # "loadDataFromSupabase"
  /\ console = {}

\* the other session's load has completed and none of its calls has failed
OtherLoadedWell == other.step = "done" /\ other.console = {}

\* C14: when this session and the other have joined the same household,
\* which nobody had used, one after the other under display names that
\* differ case-insensitively, and both loads have completed with every call
\* succeeding, the household has exactly two assignees, one per name.
C14_TwoJoinsTwoAssignees ==
  (/\ LoadedWell
   /\ OtherLoadedWell
   /\ householdId = other.householdId
   /\ ~SameName(userName, other.userName))
  => LET rows == SelectByHousehold(dbAssignees, householdId)
     IN /\ Len(rows) = 2
        /\ Named(rows, userName)
        /\ Named(rows, other.userName)

\* both sessions have loaded the household well, and the other session, whose
\* query ran before this session's insert, does not hold this session's
\* assignee
C14_Witness ==
  /\ LoadedWell
  /\ OtherLoadedWell
  /\ householdId = other.householdId
  /\ ~SameName(userName, other.userName)
  /\ Len(other.assignees) = 1
  /\ Len(assignees) = 2

-----------------------------------------------------------------------------
(* Joining a household *)

\* s has no space at either end
Stripped(s) == s # <<>> => (s[1] # " " /\ s[Len(s)] # " ")

\* t is s without the spaces around it
StrippedOf(s, t) ==
  /\ Stripped(t)
  /\ \E a \in 0..Len(s) : \E b \in a..Len(s) :
       /\ Blank(SubSeq(s, 1, a))
       /\ t = SubSeq(s, a + 1, b)
       /\ Blank(SubSeq(s, b + 1, Len(s)))

\* s has no lower-case letter
UpperCased(s) == \A k \in 1..Len(s) : UpperChar(s[k]) = s[k]

\* two codes that differ in case or in the spaces around them only
SameCode(c, d) ==
  \E t \in {SubSeq(c, a, b) : a \in 1..(Len(c) + 1), b \in 0..Len(c)} :
    /\ StrippedOf(c, t)
    /\ \E u \in {SubSeq(d, a, b) : a \in 1..(Len(d) + 1), b \in 0..Len(d)} :
         /\ StrippedOf(d, u)
         /\ ToLowerCase(t) = ToLowerCase(u)

\* C15: a join that succeeds hands to onLogin, and persists, the name without
\* the spaces around it, the code without the spaces around it and in upper
\* case, and the id of the profile it has inserted; every code that differs
\* from the typed one in case or surrounding spaces only normalizes to the
\* same household, and normalizing the household code again changes nothing.
C15_JoinNormalizesNameAndCode ==
  [][\A i \in 1..Len(inflight) :
       JoinCreatesProfile(i) =>
         LET h == inflight[i]
             profile == dbProfiles'[Len(dbProfiles')]
         IN /\ isAuthenticated'
            /\ StrippedOf(h.text, userName')
            /\ \E t \in {HOME, ELSEWHERE} : StrippedOf(h.data, t) /\ householdId' = t
            /\ UpperCased(householdId')
            /\ Len(dbProfiles') = Len(dbProfiles) + 1
            /\ userId' = profile.id
            /\ profile.name = userName'
            /\ profile.household_id = householdId'
            /\ localStorage' = [userId |-> userId', userName |-> userName',
                                householdId |-> householdId']
            /\ \A c \in JoinCodes \cup {HOME, ELSEWHERE, <<"h", " ">>} :
                 SameCode(c, h.data) => normalizedCode(c) = householdId'
            /\ normalizedCode(householdId') = householdId']_vars

\* a session that a join typed as " a" and " h" has opened: the profile
\* inserted last is the session's, under the name "a" in household "H"
C15_Witness ==
  /\ isAuthenticated
  /\ Len(dbProfiles) = 2
  /\ dbProfiles[2].id = userId
  /\ userName = <<"a">>
  /\ householdId = HOME
  /\ localStorage = [userId |-> userId, userName |-> userName,
                     householdId |-> householdId]

\* a join handler has been appended to the suspended handlers
JoinIssued == Len(inflight') > Len(inflight)

\* the login screen stays up with an error, and nothing of the session is
\* set, persisted or loaded
JoinRefused ==
  /\ ~isAuthenticated'
  /\ UNCHANGED <<session, localStorage, identity>>
  /\ \A k \in 1..Len(inflight') : inflight'[k].op # "loadDataFromSupabase"
  /\ loginError' # NoError

\* C16: when a remote call of the join fails, or when the name or the code
\* is empty once the spaces around it are removed, onLogin is not called,
\* isAuthenticated stays false, nothing is persisted and the join screen
\* shows an error; a join with an empty name or code issues no request.
C16_FailedJoinStaysOut ==
  [][/\ \A i \in 1..Len(inflight), err \in JoinErrors :
          JoinFailed(i, err) => JoinRefused
     /\ \A name \in LoginNames, code \in JoinCodes :
          (handleJoinHousehold(name, code) /\ (Blank(name) \/ Blank(code)))
            => (JoinRefused /\ ~JoinIssued)]_vars

\* the join screen shows the message of a failed call while nothing is
\* persisted
C16_Witness ==
  /\ ~isAuthenticated
  /\ loginError \in ErrMsgs
  /\ localStorage = NoSession
  /\ ~LoginLoading

\* the household rows of this code
HouseholdsOf(rows, code) == LET Coded(row) == row.id = code IN SelectSeq(rows, Coded)

\* C17: the join inserts a household exactly when its lookup has found none
\* with the normalized code, and a join that succeeds inserts one profile,
\* whatever profiles there are: the household of the code is then there
\* once, the earlier profiles are as they were, and no assignee, category
\* or chore has changed.
C17_JoinCreatesHouseholdOnceProfileAlways ==
  [][\A i \in 1..Len(inflight) :
       LET code == normalizedCode(inflight[i].data)
       IN /\ JoinFindsHousehold(i) =>
               /\ (inflight'[i].step = 2) <=> (HouseholdsOf(dbHouseholds, code) = <<>>)
               /\ UNCHANGED identity
          /\ JoinCreatesHousehold(i) =>
               /\ HouseholdsOf(dbHouseholds, code) = <<>>
               /\ dbHouseholds' = Append(dbHouseholds, HouseholdRow(code))
               /\ UNCHANGED dbProfiles
          /\ JoinCreatesProfile(i) =>
               /\ Len(HouseholdsOf(dbHouseholds', code)) = 1
               /\ UNCHANGED dbHouseholds
               /\ Len(dbProfiles') = Len(dbProfiles) + 1
               /\ SubSeq(dbProfiles', 1, Len(dbProfiles)) = dbProfiles
               /\ dbProfiles'[Len(dbProfiles')].household_id = code
               /\ \A k \in 1..Len(dbProfiles) :
                    dbProfiles'[Len(dbProfiles')].id # dbProfiles[k].id
               /\ UNCHANGED <<dbAssignees, dbCategories, dbChores>>]_vars

\* two joins under the same name and code have succeeded: two profiles, one
\* household, and the session is the second profile's
C17_Witness ==
  /\ isAuthenticated
  /\ Len(dbProfiles) = 2
  /\ dbProfiles[1].name = dbProfiles[2].name
  /\ dbProfiles[1].household_id = dbProfiles[2].household_id
  /\ dbProfiles[1].id # dbProfiles[2].id
  /\ userId = dbProfiles[2].id
  /\ Len(HouseholdsOf(dbHouseholds, householdId)) = 1
  /\ Len(dbHouseholds) = 1

-----------------------------------------------------------------------------
(* The persisted session *)

\* C18: on start, when the user id, the user name and the household code are
\* all three persisted, the session is authenticated with these values, no
\* join is requested and no household or profile is created; when one of
\* them is missing the session stays unauthenticated, on the join screen.
C18_StartRestoresWholeSessionOnly ==
  [][Mount =>
       /\ UNCHANGED <<identity, localStorage>>
       /\ ~LoginLoading'
       /\ IF /\ localStorage.userId # NULL
             /\ localStorage.userName # NoString
             /\ localStorage.householdId # NoString
          THEN /\ isAuthenticated'
               /\ userId' = localStorage.userId
               /\ userName' = localStorage.userName
               /\ householdId' = localStorage.householdId
          ELSE /\ ~isAuthenticated'
               /\ userId' = NULL
               /\ userName' = NoString
               /\ householdId' = NoString]_vars

\* the session of an earlier visit has been restored before any user event
C18_Witness ==
  /\ isMounted
  /\ isAuthenticated
  /\ ops = 0
  /\ userId = localStorage.userId
  /\ userName = localStorage.userName
  /\ householdId = localStorage.householdId
  /\ Len(dbProfiles) = 1

\* C19: a confirmed sign-out removes the three persisted keys, clears the
\* user id, the user name and the household code of the session and sets
\* isAuthenticated to false; it issues no request, so that no household,
\* profile, assignee, category or chore row changes.  A declined sign-out
\* changes nothing.
C19_SignOutClearsSessionOnly ==
  [][/\ handleSignOut(TRUE) =>
          /\ localStorage' = NoSession
          /\ userId' = NULL
          /\ userName' = NoString
          /\ householdId' = NoString
          /\ ~isAuthenticated'
          /\ UNCHANGED <<inflight, remote, identity>>
     /\ handleSignOut(FALSE) =>
          UNCHANGED <<session, store, isLoading, error, screen, console,
                      remote, identity, inflight>>]_vars

\* the session has been signed out: nothing is persisted, the join screen is
\* up, and the profile of the session is still in its table
C19_Witness ==
  /\ isMounted
  /\ ~isAuthenticated
  /\ ops > 0
  /\ localStorage = NoSession
  /\ userId = NULL
  /\ dbProfiles # <<>>
  /\ loginError = NoError
  /\ ~LoginLoading

\* C20: whenever the session is authenticated and no load is under way,
\* every assignee, category and chore of the store belongs to the household
\* of the session.
C20_StoreBelongsToHousehold ==
  Interactive =>
    /\ \A k \in 1..Len(assignees) : assignees[k].household_id = householdId
    /\ \A k \in 1..Len(categories) : categories[k].household_id = householdId
    /\ \A k \in 1..Len(chores) : chores[k].household_id = householdId

-----------------------------------------------------------------------------
(* One session whose calls all succeed and are applied in the order in     *)
(* which they were issued.                                                 *)

\* a handler was suspended, and no catch block has run: the banners show
\* nothing but the rejections of the forms, and nothing is logged
NoCallFails ==
  /\ inflight # <<>>
  /\ error' \in {NoError, "An assignee with this name already exists."}
  /\ loginError' \in {NoError, "Please enter your name",
                      "Please enter a household code"}
  /\ console' = console

\* Each step of a suspended handler is the step of the one whose call was
\* issued first, and its call succeeds.
InOrderNext ==
  \/ Mount
  \/ \E name \in LoginNames, code \in JoinCodes : handleJoinHousehold(name, code)
  \/ (JoinFindsHousehold(1) /\ NoCallFails)
  \/ (JoinCreatesHousehold(1) /\ NoCallFails)
  \/ (JoinCreatesProfile(1) /\ NoCallFails)
  \/ (LoadAssignees(1) /\ NoCallFails)
  \/ (LoadCreateAssigneeDone(1) /\ NoCallFails)
  \/ (LoadCategories(1) /\ NoCallFails)
  \/ (LoadChores(1) /\ NoCallFails)
  \/ \E c \in Ids(chores) : handleToggleChore(c)
  \/ (ToggleChoreDone(1) /\ NoCallFails)
  \/ \E c \in Ids(chores), a \in Ids(assignees) : handleToggleAssignee(c, a)
  \/ (ToggleAssigneeDone(1) /\ NoCallFails)
  \/ \E g \in Ids(categories), a \in Ids(assignees) :
       handleToggleCategoryAssignee(g, a)
  \/ (ToggleCategoryAssigneeDone(1) /\ NoCallFails)
  \/ \E g \in Ids(categories) : handleToggleCategory(g)
  \/ \E c \in Ids(chores) : handleDeleteChore(c)
  \/ (DeleteChoreDone(1) /\ NoCallFails)
  \/ \E g \in Ids(categories) : handleDeleteCategory(g)
  \/ (DeleteCategoryClearsChores(1) /\ NoCallFails)
  \/ (DeleteCategoryDone(1) /\ NoCallFails)
  \/ \E c \in Ids(chores), g \in Ids(categories) \cup {NULL} :
       handleMoveChoreToCategory(c, g)
  \/ (MoveChoreDone(1) /\ NoCallFails)
  \/ \E a \in Ids(assignees) : handleDeleteAssignee(a)
  \/ (DeleteAssigneeUpdatesChore(1) /\ NoCallFails)
  \/ (DeleteAssigneeUpdatesCategory(1) /\ NoCallFails)
  \/ (DeleteAssigneeDone(1) /\ NoCallFails)
  \/ \E t \in TextInputs, g \in Ids(categories) \cup {NULL} : handleAddChore(t, g)
  \/ \E t \in TextInputs, g \in Ids(categories) : handleAddChoreInCategory(g, t)
  \/ (AddChoreDone(1) /\ NoCallFails)
  \/ \E n \in NameInputs : handleAddAssignee(n)
  \/ (AddAssigneeSettles(1) /\ NoCallFails)
  \/ \E c \in Ids(chores), n \in NameInputs : handleQuickAddAssignee(c, n)
  \/ (QuickAddInsertsAssignee(1) /\ NoCallFails)
  \/ (QuickAddUpdatesChore(1) /\ NoCallFails)
  \/ \E t \in TextInputs : handleAddCategory(t)
  \/ (AddCategorySettles(1) /\ NoCallFails)

SpecInOrder == Init /\ [][InOrderNext]_vars

\* a load of the household would leave the store as it is, but for the
\* isOpen flags
ReloadChangesNothing ==
  /\ assignees = SelectByHousehold(dbAssignees, householdId)
  /\ [k \in 1..Len(categories) |-> [categories[k] EXCEPT !.isOpen = TRUE]]
       = MapCategories(SelectByHousehold(dbCategories, householdId))
  /\ chores = MapChores(SelectByHousehold(dbChores, householdId))

\* C21: in a session whose calls all succeed and are applied in the order
\* in which they were issued, once the load and every mutation have
\* completed, the store equals the remote rows of the household, the isOpen
\* flags left aside.
C21_StoreEqualsRemote ==
  (Interactive /\ inflight = <<>>) => ReloadChangesNothing

-----------------------------------------------------------------------------
(* Overlapping requests *)

\* C22: no two requests issued by the same control are outstanding together:
\* not two of the same add form, not two completion toggles of the same
\* chore, not two toggles of the same assignee on the same chore.
C22_OneRequestPerControl ==
  LET AddForms == {"handleAddChore", "handleAddChoreInCategory",
                   "handleAddCategory", "handleAddAssignee",
                   "handleQuickAddAssignee"}
      SameControl(h, k) ==
        /\ h.op = k.op
        /\ \/ h.op \in AddForms
           \/ h.op = "handleToggleChore" /\ h.id = k.id
           \/ h.op = "handleToggleAssignee" /\ h.id = k.id /\ h.arg = k.arg
  IN \A i, j \in 1..Len(inflight) :
       i # j => ~SameControl(inflight[i], inflight[j])

-----------------------------------------------------------------------------
(* The loading screen *)

\* the handlers that show the loading screen while they wait
LoadingOps ==
  {"loadDataFromSupabase", "handleAddChore", "handleAddChoreInCategory",
   "handleAddCategory", "handleAddAssignee", "handleQuickAddAssignee"}

\* a call of the load or of an add settles, with a result or with an error,
\* and the handler that waited for it runs on
LoadingStep ==
  \E i \in 1..Len(inflight) :
    \/ LoadAssignees(i)
    \/ LoadCreateAssignee(i)
    \/ LoadCategories(i)
    \/ LoadChores(i)
    \/ AddChoreDone(i)
    \/ \E err \in RemoteErrors : AddChoreFailed(i, err)
    \/ AddAssigneeSettles(i)
    \/ QuickAddInsertsAssignee(i)
    \/ QuickAddUpdatesChore(i)
    \/ AddCategorySettles(i)

\* The application, with every call of the load and of the adds settling in
\* the end: the handlers wait for the promise of the call without a timeout.
SpecSettling == Spec /\ WF_vars(LoadingStep)

\* C23: the loading screen is up only while the load or an add is waiting
\* for one of its calls, and once these calls have settled, with a result or
\* with an error, isLoading is false again: it never stays true.
C23_LoadingEnds ==
  /\ [](isLoading => \E i \in 1..Len(inflight) : inflight[i].op \in LoadingOps)
  /\ (isLoading ~> ~isLoading)

\* an add has failed: its error is shown and the loading screen is gone
C23_Witness ==
  /\ isAuthenticated
  /\ ~isLoading
  /\ inflight = <<>>
  /\ error = "Failed to add chore. Please try again."

-----------------------------------------------------------------------------
(* Completion and assignment *)

\* C24: every step of handleToggleChore changes nothing but the completed
\* flag of its chore, in the store and in the remote table, and every step
\* of handleToggleAssignee nothing but the assignees of its chore: the other
\* fields of the chore and the other chores are as they were.
C24_TogglesAreIndependent ==
  [][LET SameBut(old, new, id, field) ==
        /\ Len(new) = Len(old)
        /\ \A k \in 1..Len(old) :
             /\ old[k].id # id => new[k] = old[k]
             /\ \A f \in DOMAIN old[k] \ {field} : new[k][f] = old[k][f]
  IN    /\ \A c \in Ids(chores) :
             handleToggleChore(c) =>
               SameBut(chores, chores', c, "completed") /\ UNCHANGED dbChores
        /\ \A c \in Ids(chores), a \in Ids(assignees) :
             handleToggleAssignee(c, a) =>
               SameBut(chores, chores', c, "assigneeIds") /\ UNCHANGED dbChores
        /\ \A i \in 1..Len(inflight) :
             /\ ToggleChoreDone(i) =>
                  /\ SameBut(dbChores, dbChores', inflight[i].id, "completed")
                  /\ UNCHANGED chores
             /\ ToggleAssigneeDone(i) =>
                  /\ SameBut(dbChores, dbChores', inflight[i].id, "assignee_ids")
                  /\ UNCHANGED chores
             /\ (\E err \in RemoteErrors : ToggleChoreFailed(i, err)) =>
                  /\ SameBut(chores, chores', inflight[i].id, "completed")
                  /\ UNCHANGED dbChores
             /\ (\E err \in RemoteErrors : ToggleAssigneeFailed(i, err)) =>
                  /\ SameBut(chores, chores', inflight[i].id, "assigneeIds")
                  /\ UNCHANGED dbChores]_vars

\* C25: the rollback of a failed toggle writes back the one field the toggle
\* had changed, on its own chore or category, into the store as it is by
\* then: what other mutations have changed since the toggle was invoked is
\* still there.
C25_RollbackKeepsLaterChanges ==
  [][\A i \in 1..Len(inflight) :
       LET h == inflight[i]
           Restored(now, before, field) ==
             [k \in 1..Len(now) |->
                IF now[k].id = h.id /\ Has(before, h.id)
                THEN [now[k] EXCEPT ![field] = Find(before, h.id)[field]]
                ELSE now[k]]
       IN /\ (\E err \in RemoteErrors : ToggleChoreFailed(i, err)) =>
               chores' = Restored(chores, h.chores, "completed")
          /\ (\E err \in RemoteErrors : ToggleAssigneeFailed(i, err)) =>
               chores' = Restored(chores, h.chores, "assigneeIds")
          /\ (\E err \in RemoteErrors : ToggleCategoryAssigneeFailed(i, err)) =>
               categories' = Restored(categories, h.categories, "assigneeIds")]_vars

\* C26: once no completion toggle of a chore is outstanding, the completed
\* flag of the chore in the store is the flag of its remote row, however
\* many toggles of the chore have overlapped and whichever of their updates
\* have failed.
C26_CompletedFlagsAgree ==
  Interactive =>
    \A k \in 1..Len(chores) :
      LET id == chores[k].id
          Outstanding == \E i \in 1..Len(inflight) :
                           inflight[i].op = "handleToggleChore" /\ inflight[i].id = id
      IN (~Outstanding /\ Has(dbChores, id)) =>
           chores[k].completed = Find(dbChores, id).completed

\* C27: in a session whose load has not failed, every assignee listed by a
\* chore or a category of the store is in the store's assignees, and the
\* category of every categorized chore of the store is in the store's
\* categories.
C27_StoreIsReferentiallyConsistent ==
  (Interactive /\ console = {}) =>
    /\ \A k \in 1..Len(chores) :
         /\ \A n \in 1..Len(chores[k].assigneeIds) :
              Has(assignees, chores[k].assigneeIds[n])
         /\ chores[k].categoryId # NULL => Has(categories, chores[k].categoryId)
    /\ \A k \in 1..Len(categories) :
         \A n \in 1..Len(categories[k].assigneeIds) :
           Has(assignees, categories[k].assigneeIds[n])

-----------------------------------------------------------------------------
(* The assignees of a load *)

\* C28: when the load has read the assignees of the household, and whether
\* the insert of the session's own assignee then succeeds or fails, the
\* store's assignees contain every row the query has returned.
C28_LoadKeepsReturnedAssignees ==
  [][\A i \in 1..Len(inflight) :
       LET h == inflight[i]
           Contains(xs, rows) ==
             \A k \in 1..Len(rows) : \E n \in 1..Len(xs) : xs[n] = rows[k]
       IN /\ (/\ LoadAssignees(i)
              /\ Len(inflight') = Len(inflight)
              /\ inflight'[Len(inflight')].step = 3) =>
               Contains(assignees', SelectByHousehold(dbAssignees, h.householdId))
          /\ LoadCreateAssigneeDone(i) => Contains(assignees', h.data)
          /\ LoadCreateAssigneeFailed(i) => Contains(assignees', h.data)]_vars

-----------------------------------------------------------------------------
(* The order of the calls of handleDeleteCategory *)

\* C29: a category row leaves the remote table only by the delete of a
\* handleDeleteCategory whose update of the chores has succeeded before; a
\* handleDeleteCategory whose update fails ends there, without a delete;
\* and no remote chore names a category that is not in the remote table.
C29_DeleteCategoryAfterChoresCleared ==
  /\ [](\A k \in 1..Len(dbChores) :
          dbChores[k].category_id # NULL => Has(dbCategories, dbChores[k].category_id))
  /\ [][/\ \A id \in Ids(dbCategories) \ Ids(dbCategories') :
             \E i \in 1..Len(inflight) :
               /\ inflight[i].op = "handleDeleteCategory"
               /\ inflight[i].id = id
               /\ inflight[i].step = 2
               /\ Len(inflight') = Len(inflight) - 1
        /\ \A i \in 1..Len(inflight), err \in RemoteErrors :
             (DeleteCategoryFailed(i, err) /\ inflight[i].step = 1) =>
               /\ UNCHANGED remote
               /\ inflight' = Remove(inflight, i)
        /\ \A i \in 1..Len(inflight) :
             DeleteCategoryClearsChores(i) =>
               /\ UNCHANGED dbCategories
               /\ \A k \in 1..Len(dbChores') :
                    dbChores'[k].category_id # inflight[i].id]_vars

\* the session has deleted the one category of the household: its row is
\* gone, and the chore that was in it has no category
C29_Witness ==
  /\ Interactive
  /\ inflight = <<>>
  /\ error = NoError
  /\ dbCategories = <<>>
  /\ nextId.category = 2
  /\ Len(dbChores) = 1
  /\ dbChores[1].category_id = NULL

-----------------------------------------------------------------------------
(* Two sessions that join at the same time: the join of the other session  *)
(* call by call, and a remote store that rejects a request only when it    *)
(* violates a constraint.                                                  *)

\* the other session calls handleJoinHousehold (supabaseClient.ts:31-58)
OtherJoinStarts(name, typedCode) ==
  /\ other.step = "login"
  /\ other' = [other EXCEPT !.step = "lookup", !.userName = Trim(name),
                            !.householdId = normalizedCode(ToUpperCase(typedCode))]
  /\ UNCHANGED <<session, store, isLoading, error, screen, console, remote,
                 identity, inflight, resolved, ops>>

\* its lookup of the household (supabaseClient.ts:54-66)
OtherJoinFindsHousehold ==
  /\ other.step = "lookup"
  /\ other' = [other EXCEPT !.step = IF Has(dbHouseholds, other.householdId)
                                     THEN "profile" ELSE "household"]
  /\ UNCHANGED <<session, store, isLoading, error, screen, console, remote,
                 identity, inflight, resolved, ops>>

\* its insert of the household is accepted (supabaseClient.ts:66-72)
OtherJoinCreatesHousehold ==
  /\ other.step = "household"
  /\ ~Has(dbHouseholds, other.householdId)
  /\ dbHouseholds' = Append(dbHouseholds, HouseholdRow(other.householdId))
  /\ other' = [other EXCEPT !.step = "profile"]
  /\ UNCHANGED <<session, store, isLoading, error, screen, console, remote,
                 dbProfiles, inflight, resolved, ops>>

\* its insert of the household is rejected, the id being the primary key:
\* the catch block shows the error on its join screen
\* (supabaseClient.ts:71, 92-98)
OtherJoinRejected ==
  /\ other.step = "household"
  /\ Has(dbHouseholds, other.householdId)
  /\ other' = [other EXCEPT !.step = "error"]
  /\ UNCHANGED <<session, store, isLoading, error, screen, console, remote,
                 identity, inflight, resolved, ops>>

\* its insert of the profile is accepted: the other session enters the
\* application and its load starts (supabaseClient.ts:74-91)
OtherJoinCreatesProfile ==
  /\ other.step = "profile"
  /\ Has(dbHouseholds, other.householdId)
  /\ dbProfiles' = Append(dbProfiles,
       ProfileRow(nextId.profile, other.userName, other.householdId))
  /\ nextId' = [nextId EXCEPT !.profile = @ + 1]
  /\ other' = [other EXCEPT !.step = "assignees"]
  /\ UNCHANGED <<session, store, isLoading, error, screen, console,
                 dbAssignees, dbCategories, dbChores, dbHouseholds, inflight,
                 resolved, ops>>

\* the insert of the household that this session's join waits for is
\* rejected, the id being the primary key (supabaseClient.ts:71, 92-98)
JoinRejected(i) ==
  /\ i \in Waiting("handleJoinHousehold", 2)
  /\ Has(dbHouseholds, normalizedCode(inflight[i].data))
  /\ \E err \in JoinErrors : JoinFailed(i, err)

ConcurrentJoinNext ==
  \/ Mount
  \/ \E name \in LoginNames, code \in JoinCodes : handleJoinHousehold(name, code)
  \/ \E i \in 1..Len(inflight) : JoinFindsHousehold(i)
  \/ \E i \in 1..Len(inflight) : JoinCreatesHousehold(i)
  \/ \E i \in 1..Len(inflight) : JoinCreatesProfile(i)
  \/ \E i \in 1..Len(inflight) : JoinRejected(i)
  \/ \E i \in 1..Len(inflight) : LoadAssignees(i)
  \/ \E i \in 1..Len(inflight) : LoadCreateAssignee(i)
  \/ \E i \in 1..Len(inflight) : LoadCategories(i)
  \/ \E i \in 1..Len(inflight) : LoadChores(i)
  \/ \E name \in OtherNames, code \in OtherCodes : OtherJoinStarts(name, code)
  \/ OtherJoinFindsHousehold
  \/ OtherJoinCreatesHousehold
  \/ OtherJoinRejected
  \/ OtherJoinCreatesProfile
  \/ OtherLoadAssignees
  \/ OtherLoadCreateAssigneeDone
  \/ OtherLoadCreateAssigneeFailed
  \/ OtherLoadCategories
  \/ OtherLoadChores

SpecConcurrentJoin == TwoSessionsInit /\ [][ConcurrentJoinNext]_vars

\* C30: when the remote store rejects only what violates a constraint, no
\* join of either session is refused, and no code has two household rows:
\* two sessions that join a code nobody has used both enter the application.
C30_ConcurrentJoinsBothSucceed ==
  /\ other.step # "error"
  /\ loginError \notin ErrMsgs \cup {"Failed to join household. Please try again."}
  /\ \A p, q \in 1..Len(dbHouseholds) :
       dbHouseholds[p].id = dbHouseholds[q].id => p = q

=============================================================================
